---- MODULE Spec2Model ----
(***************************************************************************)
(* Model of the torrust-tracker core: the in-memory swarm store, the       *)
(* announce handler and the UDP protocol engine with its stateless         *)
(* connection-id cookie.                                                   *)
(***************************************************************************)
EXTENDS Integers, FiniteSets, Sequences, TLC

VARIABLES
    torrents,       \* InMemoryTorrentRepository.torrents: info_hash -> entry
    db_torrents,    \* persisted table torrents(info_hash, completed)
    config,         \* the Core configuration the handlers were built with
    now,            \* CurrentClock::now()
    n_requests,     \* number of requests served so far
    whitelist,      \* the in-memory whitelist of info hashes
    db_whitelist,   \* persisted table whitelist(info_hash)
    keys,           \* the in-memory key repository: the registered PeerKeys
    response,       \* the AnnounceData the core handler returned last, and for what
    ban_service,    \* per-source-IP counter of connection-id errors
    udp,            \* the last datagram, the time it arrived and the UDP response to it
    minted,         \* the connection ids handed out so far: id, source, issue time
    loader,         \* where a running load of the whitelist from the database stands
    inflight        \* the calls in progress on concurrent tasks, each with its position

vars == <<torrents, db_torrents, config, whitelist, db_whitelist, keys, now,
          n_requests, response, ban_service, udp, minted, loader,
          inflight>>

----------------------------------------------------------------------------
(* Bounds of the model *)

\* the clock stops advancing at MaxTime
MaxTime == 2
\* number of requests one behaviour serves
MaxRequests == 3
\* tracker_policy.max_peer_timeout of the modelled configuration
MaxPeerTimeout == 1

\* torrust_tracker_configuration::TORRENT_PEERS_LIMIT
TORRENT_PEERS_LIMIT == 74

InfoHashes == {"h1", "h2"}
NoIp == "none"
Loopback == "lo"
ExternalIp == "ip9"
Ips == {Loopback, "ip1", "ip2"}
\* the (event, left) pairs the modelled clients announce with
Announced == {<<"Started", 1>>, <<"Completed", 0>>, <<"Stopped", 1>>, <<"None", 0>>}
\* the clients of the swarm model: <<peer id, remote IP, announced port>>
Clients == {<<"p1", "ip1", 1>>, <<"p2", Loopback, 1>>}
\* the clients of the neighbour-selection model; p3 also announces from p1's address
SwarmClients == {<<"p1", "ip1", 1>>, <<"p2", Loopback, 2>>, <<"p3", "ip2", 1>>, <<"p3", "ip1", 1>>}
\* the num_want values they send
NumWant == {-1, 1, 75}

\* no load of the whitelist is running
NoLoad == [pc |-> "idle"]

\* no call is in progress
NoCalls == <<>>

\* Option<T>
None == <<>>
Some(value) == <<value>>

Min(a, b) == IF a <= b THEN a ELSE b
Max(a, b) == IF a >= b THEN a ELSE b

----------------------------------------------------------------------------
(* torrent-repository crate: the entry and the collection of entries *)

EmptyEntry == [peers |-> {}, downloaded |-> 0]

zeroed == [downloaded |-> 0, complete |-> 0, incomplete |-> 0]

\* Entry::upsert_peer counting every Completed event, known PeerId or not
Entry_upsert_peer_counting_all(entry, peer) ==
    [peers |-> {q \in entry.peers : q.peer_id # peer.peer_id} \cup {peer},
     downloaded |-> IF peer.event = "Completed"
                    THEN entry.downloaded + 1
                    ELSE entry.downloaded]

\* Entry::upsert_peer inserting only when the PeerId is new (the old record stays)
Entry_upsert_peer_keeping_old(entry, peer) ==
    [peers |-> IF \E q \in entry.peers : q.peer_id = peer.peer_id
               THEN entry.peers
               ELSE entry.peers \cup {peer},
     downloaded |-> IF peer.event = "Completed"
                        /\ \E q \in entry.peers : q.peer_id = peer.peer_id
                    THEN entry.downloaded + 1
                    ELSE entry.downloaded]

\* Entry::upsert_peer taking a download back when the peer announces Stopped
Entry_upsert_peer_uncounting_stopped(entry, peer) ==
    [peers |-> {q \in entry.peers : q.peer_id # peer.peer_id} \cup {peer},
     downloaded |-> IF \E q \in entry.peers : q.peer_id = peer.peer_id
                    THEN IF peer.event = "Completed" THEN entry.downloaded + 1
                         ELSE IF peer.event = "Stopped" /\ entry.downloaded > 0
                              THEN entry.downloaded - 1
                              ELSE entry.downloaded
                    ELSE entry.downloaded]

\* Entry::upsert_peer: the record of the same PeerId is replaced; a Completed
\* event of a PeerId already in the table counts one download.
Entry_upsert_peer(entry, peer) ==
    [peers |-> {q \in entry.peers : q.peer_id # peer.peer_id} \cup {peer},
     downloaded |-> IF peer.event = "Completed"
                        /\ \E q \in entry.peers : q.peer_id = peer.peer_id
                    THEN entry.downloaded + 1
                    ELSE entry.downloaded]

\* Entry::get_swarm_metadata: takes neither the clock nor the policy
Entry_get_swarm_metadata(entry) ==
    [downloaded |-> entry.downloaded,
     complete   |-> Cardinality({p \in entry.peers : p.left = 0}),
     incomplete |-> Cardinality({p \in entry.peers : p.left # 0})]

\* Entry::get_peers_for_client: the possible results, in no guaranteed order
Entry_get_peers_for_client(entry, client, limit) ==
    LET eligible == {p \in entry.peers : p.peer_addr # client}
    IN  {S \in SUBSET eligible : Cardinality(S) = Min(limit, Cardinality(eligible))}

\* Entry::get_peers
Entry_get_peers(entry, limit) ==
    {S \in SUBSET entry.peers : Cardinality(S) = Min(limit, Cardinality(entry.peers))}

\* Repository::upsert_peer: creates the entry when absent
Torrents_upsert_peer(ts, info_hash, peer) ==
    IF info_hash \in DOMAIN ts
    THEN [ts EXCEPT ![info_hash] = Entry_upsert_peer(ts[info_hash], peer)]
    ELSE [h \in DOMAIN ts \cup {info_hash} |->
            IF h = info_hash THEN Entry_upsert_peer(EmptyEntry, peer) ELSE ts[h]]

----------------------------------------------------------------------------
(* InMemoryTorrentRepository *)

\* upsert_peer taking a peer that announces Stopped out of the table
upsert_peer_removing_stopped(ts, info_hash, peer) ==
    IF peer.event = "Stopped" /\ info_hash \in DOMAIN ts
    THEN [ts EXCEPT ![info_hash].peers = {q \in @ : q.peer_id # peer.peer_id}]
    ELSE Torrents_upsert_peer(ts, info_hash, peer)

\* mutant: upsert_peer putting the peer into the table of every torrent
upsert_peer_into_every_torrent(ts, info_hash, peer) ==
    LET upserted == Torrents_upsert_peer(ts, info_hash, peer)
    IN  [h \in DOMAIN upserted |-> Entry_upsert_peer(upserted[h], peer)]

upsert_peer(ts, info_hash, peer) == Torrents_upsert_peer(ts, info_hash, peer)

\* get_swarm_metadata taking the "torrent not found" arm for every torrent
get_swarm_metadata_never_found(ts, info_hash) == zeroed

get_swarm_metadata(ts, info_hash) ==
    IF info_hash \in DOMAIN ts
    THEN Entry_get_swarm_metadata(ts[info_hash])
    ELSE zeroed

\* get_peers_for calling Entry::get_peers, as get_torrent_peers does: no client filter
get_peers_for_unfiltered(ts, info_hash, peer, limit) ==
    IF info_hash \notin DOMAIN ts
    THEN {{}}
    ELSE Entry_get_peers(ts[info_hash], Max(limit, TORRENT_PEERS_LIMIT))

get_peers_for(ts, info_hash, peer, limit) ==
    IF info_hash \notin DOMAIN ts
    THEN {{}}
    ELSE Entry_get_peers_for_client(ts[info_hash], peer.peer_addr,
                                    Max(limit, TORRENT_PEERS_LIMIT))

----------------------------------------------------------------------------
(* AnnounceHandler *)

AsManyAsPossible == [kind |-> "AsManyAsPossible", amount |-> 0]
Only(n) == [kind |-> "Only", amount |-> n]

\* mutant: the amount asked for is taken as it is
PeersWanted_from_unclamped(value) ==
    IF value <= 0 THEN AsManyAsPossible ELSE Only(value)

\* impl From<i32> for PeersWanted
PeersWanted_from(value) ==
    IF value <= 0 THEN AsManyAsPossible ELSE Only(Min(value, TORRENT_PEERS_LIMIT))

\* PeersWanted::limit
limit(peers_wanted) ==
    IF peers_wanted.kind = "AsManyAsPossible"
    THEN TORRENT_PEERS_LIMIT
    ELSE peers_wanted.amount

is_loopback(ip) == ip = Loopback

\* mutant: the external address is given to every peer
assign_ip_address_to_peer_always_external(remote_client_ip, tracker_external_ip) ==
    IF tracker_external_ip # NoIp
    THEN tracker_external_ip
    ELSE remote_client_ip

assign_ip_address_to_peer(remote_client_ip, tracker_external_ip) ==
    IF tracker_external_ip # NoIp /\ is_loopback(remote_client_ip)
    THEN tracker_external_ip
    ELSE remote_client_ip

\* Peer::change_ip
change_ip(peer, ip) == [peer EXCEPT !.peer_addr = <<ip, peer.peer_addr[2]>>]

\* Database::save_persistent_torrent: insert, or update on conflict
save_persistent_torrent(db, info_hash, completed) ==
    [h \in DOMAIN db \cup {info_hash} |-> IF h = info_hash THEN completed ELSE db[h]]

\* persist_stats saving whatever the configuration says
persist_stats_saves_always(info_hash, swarm_metadata) ==
    <<[info_hash |-> info_hash, completed |-> swarm_metadata.downloaded]>>

\* persist_stats: the calls of db_torrent_repository.save it makes
persist_stats_saves(info_hash, swarm_metadata) ==
    IF config.persistent_torrent_completed_stat
    THEN <<[info_hash |-> info_hash, completed |-> swarm_metadata.downloaded]>>
    ELSE <<>>

\* persist_stats: the table after the call, the database working
persist_stats(db, info_hash, swarm_metadata) ==
    LET saves == persist_stats_saves(info_hash, swarm_metadata)
    IN  IF saves = <<>>
        THEN db
        ELSE save_persistent_torrent(db, saves[1].info_hash, saves[1].completed)

\* AnnounceHandler::announce giving up, and undoing the upsert, when the save fails
announce_saving_or_failing(database_fails, info_hash, peer0, remote_client_ip, peers_wanted) ==
    LET peer   == change_ip(peer0, assign_ip_address_to_peer(remote_client_ip, config.external_ip))
        before == get_swarm_metadata(torrents, info_hash)
        ts     == upsert_peer(torrents, info_hash, peer)
        after  == get_swarm_metadata(ts, info_hash)
        saves  == IF before # after THEN persist_stats_saves(info_hash, after) ELSE <<>>
        failed == database_fails /\ saves # <<>>
    IN  {[torrents    |-> IF failed THEN torrents ELSE ts,
          db_torrents |-> IF before # after /\ ~database_fails
                          THEN persist_stats(db_torrents, info_hash, after)
                          ELSE db_torrents,
          saves       |-> saves,
          response    |-> IF failed
                          THEN [kind |-> "error", info_hash |-> info_hash, peer |-> peer]
                          ELSE [kind |-> "announce", info_hash |-> info_hash, peer |-> peer,
                                remote_client_ip |-> remote_client_ip,
                                peers_wanted |-> peers_wanted, peers |-> peers,
                                stats |-> after]] :
         peers \in get_peers_for(ts, info_hash, peer, limit(peers_wanted))}

\* AnnounceHandler::announce, with upsert_peer_and_get_stats, on a database
\* that fails the save or not: the outcomes of the call, each the store and
\* the table after it, the saves asked of the database and the AnnounceData
\* returned. The result of the save is dropped.
announce_saving(database_fails, info_hash, peer0, remote_client_ip, peers_wanted) ==
    LET peer   == change_ip(peer0, assign_ip_address_to_peer(remote_client_ip, config.external_ip))
        before == get_swarm_metadata(torrents, info_hash)
        ts     == upsert_peer(torrents, info_hash, peer)
        after  == get_swarm_metadata(ts, info_hash)
    IN  {[torrents    |-> ts,
          db_torrents |-> IF before # after /\ ~database_fails
                          THEN persist_stats(db_torrents, info_hash, after)
                          ELSE db_torrents,
          saves       |-> IF before # after
                          THEN persist_stats_saves(info_hash, after)
                          ELSE <<>>,
          response    |-> [kind |-> "announce", info_hash |-> info_hash, peer |-> peer,
                           remote_client_ip |-> remote_client_ip,
                           peers_wanted |-> peers_wanted, peers |-> peers, stats |-> after]] :
         peers \in get_peers_for(ts, info_hash, peer, limit(peers_wanted))}

\* AnnounceHandler::announce on a working database
announce(info_hash, peer0, remote_client_ip, peers_wanted) ==
    announce_saving(FALSE, info_hash, peer0, remote_client_ip, peers_wanted)

\* peer_builder::from_request
from_request(announce_request, peer_ip) ==
    [peer_id |-> announce_request.peer_id,
     peer_addr |-> <<peer_ip, announce_request.port>>,
     updated |-> now,
     left |-> announce_request.left,
     event |-> announce_request.event]

----------------------------------------------------------------------------
(* Operations *)

NoResponse == [kind |-> "none"]
NoDatagram == [kind |-> "none"]

Init ==
    /\ torrents = [h \in {} |-> EmptyEntry]
    /\ db_torrents = [h \in {} |-> 0]
    /\ config \in [external_ip : {NoIp, ExternalIp},
                   persistent_torrent_completed_stat : BOOLEAN,
                   listed : {FALSE},
                   private : {FALSE},
                   private_mode : {None},
                   on_reverse_proxy : {FALSE},
                   max_peer_timeout : {MaxPeerTimeout},
                   remove_peerless_torrents : {FALSE}]
    /\ whitelist = {}
    /\ db_whitelist = {}
    /\ keys = {}
    /\ now = 0
    /\ n_requests = 0
    /\ response = NoResponse
    /\ ban_service = [ip \in Ips |-> 0]
    /\ udp = [request |-> NoDatagram, response |-> NoResponse, time |-> 0]
    /\ minted = {}
    /\ loader = NoLoad
    /\ inflight = NoCalls

\* an announce reaching the core handler, from one of `clients`
AnnounceOf(info_hashes, clients, announced, num_wants) ==
    /\ n_requests < MaxRequests
    /\ \E info_hash \in info_hashes, client \in clients, a \in announced,
          num_want \in num_wants :
          LET announce_request == [peer_id |-> client[1], port |-> client[3],
                                   event |-> a[1], left |-> a[2]]
          IN  \E out \in announce(info_hash, from_request(announce_request, client[2]),
                                  client[2], PeersWanted_from(num_want)) :
                 /\ torrents' = out.torrents
                 /\ db_torrents' = out.db_torrents
                 /\ response' = out.response
    /\ n_requests' = n_requests + 1
    /\ UNCHANGED <<config, whitelist, db_whitelist, keys, now, ban_service, udp, minted, loader, inflight>>

Announce == AnnounceOf(InfoHashes, Clients, Announced, {-1})

\* the clock advances
Tick ==
    /\ now < MaxTime
    /\ now' = now + 1
    /\ UNCHANGED <<torrents, db_torrents, config, whitelist, db_whitelist, keys,
                   n_requests, response, ban_service, udp, minted, loader, inflight>>

Next == Announce \/ Tick

Spec == Init /\ [][Next]_vars

\* announces of a swarm of three peers on one torrent, asking for some or all peers
SwarmAnnounce ==
    AnnounceOf({"h1"}, SwarmClients, {<<"Started", 1>>, <<"Completed", 0>>}, NumWant)

NextNeighbors == SwarmAnnounce

SpecNeighbors == Init /\ [][NextNeighbors]_vars

----------------------------------------------------------------------------
(* UDP protocol engine: the connection-id cookie *)

\* number of datagrams one behaviour of the UDP engine receives
MaxPackets == 2
\* the clock of the UDP engine stops advancing at MaxClock
MaxClock == 4
\* udp.cookie_lifetime of the modelled configuration, in seconds
CookieLifetime == 1
\* width of a connection id, of a fingerprint and of an issue time, in bits
CookieBits == 3

Modulus == 2 ^ CookieBits
ConnectionIds == 0 .. Modulus - 1

\* the datagram sources: <<ip, port>>
Sources == {<<"ip1", 1>>, <<"ip1", 2>>, <<"ip2", 1>>}
\* DefaultHasher over the socket address: distinct addresses, distinct hashes
\* two sources with IPv6 addresses
Sources6 == {<<"ip6", 1>>, <<"ip6", 2>>}
Fingerprint == [s \in Sources \cup Sources6 |->
                   CASE s = <<"ip1", 1>> -> 5
                     [] s = <<"ip1", 2>> -> 4
                     [] s = <<"ip2", 1>> -> 2
                     [] s = <<"ip6", 1>> -> 3
                     [] s = <<"ip6", 2>> -> 6]
\* the peer id a source announces with
PeerIdOf == [s \in Sources |-> CASE s = <<"ip1", 1>> -> "p1"
                                 [] s = <<"ip1", 2>> -> "p2"
                                 [] s = <<"ip2", 1>> -> "p3"]
\* connection ids a client that never connected makes up
ForgedIds == {0, Modulus - 1}

RECURSIVE Xor(_, _)
\* bitwise exclusive or
Xor(a, b) ==
    IF a = 0 THEN b
    ELSE IF b = 0 THEN a
    ELSE ((a + b) % 2) + 2 * Xor(a \div 2, b \div 2)

\* the block cipher keyed at startup: a bijection on the connection ids
encrypt(plain) == (3 * plain + 5) % Modulus
decrypt(cipher) == CHOOSE plain \in ConnectionIds : encrypt(plain) = cipher

\* f64::is_normal on the issue time: zero is not a normal value
is_normal(issue_time) == issue_time # 0

\* connection_cookie::make
make(fingerprint, issue_at) == encrypt(Xor(fingerprint, issue_at))

\* connection_cookie::check: "Ok", or the error
check(connection_id, fingerprint, valid_range) ==
    LET issue_time == Xor(decrypt(connection_id), fingerprint)
    IN  IF ~is_normal(issue_time) THEN "CookieValueNotNormal"
        ELSE IF issue_time < valid_range.start THEN "CookieValueExpired"
        ELSE IF issue_time > valid_range.end THEN "CookieValueFromFuture"
        ELSE "Ok"

CookieErrors == {"CookieValueNotNormal", "CookieValueExpired", "CookieValueFromFuture"}

\* CookieTimeValues::new without the second of slack on the expiry side
CookieTimeValues_new_without_slack(cookie_lifetime) ==
    [issue_time  |-> now,
     valid_range |-> [start |-> now - cookie_lifetime, end |-> now + 1]]

\* CookieTimeValues::new
CookieTimeValues_new(cookie_lifetime) ==
    LET issue_time == now
        expiry_time == issue_time - cookie_lifetime - 1
        tolerance_max_time == issue_time + 1
    IN  [issue_time |-> issue_time,
         valid_range |-> [start |-> expiry_time, end |-> tolerance_max_time]]

\* gen_remote_fingerprint hashing the IP only
gen_remote_fingerprint_of_ip(remote_addr) ==
    Fingerprint[CHOOSE s \in Sources : s[1] = remote_addr[1]]

\* gen_remote_fingerprint
gen_remote_fingerprint(remote_addr) == Fingerprint[remote_addr]

\* BanService::increase_counter
increase_counter(bans, ip) == [bans EXCEPT ![ip] = @ + 1]

\* WhitelistAuthorization::authorize looking at the whitelist in every mode
authorize_in_every_mode(info_hash) == info_hash \in whitelist

\* WhitelistAuthorization::authorize
authorize(info_hash) == ~config.listed \/ info_hash \in whitelist

\* Repository::get creating the entry it does not find, as an entry-or-default
\* lookup would
Torrents_after_get_inserting(ts, info_hash) ==
    IF info_hash \in DOMAIN ts
    THEN ts
    ELSE [h \in DOMAIN ts \cup {info_hash} |-> IF h = info_hash THEN EmptyEntry ELSE ts[h]]

\* Repository::get, seen from the store: a lookup leaves the store as it found it
Torrents_after_get(ts, info_hash) == ts

\* the store that InMemoryTorrentRepository::get_swarm_metadata leaves
after_get_swarm_metadata(ts, info_hash) == Torrents_after_get(ts, info_hash)

\* the store that ScrapeHandler::scrape leaves: one lookup per authorized infohash
RECURSIVE after_scrape(_, _)
after_scrape(ts, info_hashes) ==
    IF info_hashes = {}
    THEN ts
    ELSE LET info_hash == CHOOSE h \in info_hashes : TRUE
         IN  after_scrape(IF authorize(info_hash)
                          THEN after_get_swarm_metadata(ts, info_hash)
                          ELSE ts,
                          info_hashes \ {info_hash})

\* ScrapeHandler::scrape reading the store without asking the whitelist
scrape_unauthorized(info_hashes) ==
    [h \in info_hashes |-> get_swarm_metadata(torrents, h)]

\* ScrapeHandler::scrape
scrape(info_hashes) ==
    [h \in info_hashes |->
        IF authorize(h) THEN get_swarm_metadata(torrents, h) ELSE zeroed]

----------------------------------------------------------------------------
(* UDP protocol engine: the handlers *)

\* Result<Response, (Error, TransactionId)>
Ok(udp_response) == [ok |-> TRUE, response |-> udp_response]
Err(e, transaction_id) == [ok |-> FALSE, error |-> e, transaction_id |-> transaction_id]

\* what a handler returns, with the core state it leaves behind
Untouched(result) ==
    [result |-> result, torrents |-> torrents, db_torrents |-> db_torrents,
     response |-> response]

is_ipv4(ip) == ip # "ip6"

\* handle_connect
handle_connect(remote_addr, request, cookie_issue_time) ==
    [kind |-> "Connect",
     transaction_id |-> request.transaction_id,
     connection_id |-> make(gen_remote_fingerprint(remote_addr), cookie_issue_time)]

\* mutant: the announce response with every peer of the AnnounceData
AnnounceResponse_of_every_family(remote_addr, request, announce_data) ==
    [kind |-> "Announce",
     transaction_id |-> request.transaction_id,
     leechers |-> announce_data.stats.incomplete,
     seeders |-> announce_data.stats.complete,
     peers |-> {peer.peer_addr : peer \in announce_data.peers}]

\* the announce response built from the AnnounceData, peers of the client's family only
AnnounceResponse(remote_addr, request, announce_data) ==
    [kind |-> "Announce",
     transaction_id |-> request.transaction_id,
     leechers |-> announce_data.stats.incomplete,
     seeders |-> announce_data.stats.complete,
     peers |-> {peer.peer_addr : peer \in
                  {q \in announce_data.peers :
                      is_ipv4(q.peer_addr[1]) = is_ipv4(remote_addr[1])}}]

\* handle_announce serving the request before looking at the connection id
handle_announce_unchecked(remote_addr, request, cookie_valid_range) ==
    IF ~authorize(request.info_hash)
    THEN {Untouched(Err("TrackerError", request.transaction_id))}
    ELSE {[result |-> Ok(AnnounceResponse(remote_addr, request, out.response)),
           torrents |-> out.torrents, db_torrents |-> out.db_torrents,
           response |-> out.response] :
          out \in announce(request.info_hash, from_request(request, remote_addr[1]),
                           remote_addr[1], PeersWanted_from(request.peers_wanted))}

\* handle_announce
handle_announce(remote_addr, request, cookie_valid_range) ==
    LET checked == check(request.connection_id, gen_remote_fingerprint(remote_addr),
                         cookie_valid_range)
        info_hash == request.info_hash
        remote_client_ip == remote_addr[1]
    IN  IF checked # "Ok"
        THEN {Untouched(Err(checked, request.transaction_id))}
        ELSE IF ~authorize(info_hash)
        THEN {Untouched(Err("TrackerError", request.transaction_id))}
        ELSE {[result |-> Ok(AnnounceResponse(remote_addr, request, out.response)),
               torrents |-> out.torrents, db_torrents |-> out.db_torrents,
               response |-> out.response] :
              out \in announce(info_hash, from_request(request, remote_client_ip),
                               remote_client_ip, PeersWanted_from(request.peers_wanted))}

\* handle_scrape
handle_scrape(remote_addr, request, cookie_valid_range) ==
    LET checked == check(request.connection_id, gen_remote_fingerprint(remote_addr),
                         cookie_valid_range)
    IN  IF checked # "Ok"
        THEN {Untouched(Err(checked, request.transaction_id))}
        ELSE {Untouched(Ok([kind |-> "Scrape",
                            transaction_id |-> request.transaction_id,
                            torrent_stats |-> scrape(request.info_hashes)]))}

\* handle_request
handle_request(request, remote_addr, cookie_time_values) ==
    CASE request.kind = "Connect" ->
            {Untouched(Ok(handle_connect(remote_addr, request, cookie_time_values.issue_time)))}
      [] request.kind = "Announce" ->
            handle_announce(remote_addr, request, cookie_time_values.valid_range)
      [] request.kind = "Scrape" ->
            handle_scrape(remote_addr, request, cookie_time_values.valid_range)

\* handle_error: the Error response
handle_error(remote_addr, cookie_valid_range, e, transaction_id) ==
    LET reported ==
            IF e.error = "RequestParseError"
            THEN IF e.sendable
                 THEN IF check(e.connection_id, gen_remote_fingerprint(remote_addr),
                               cookie_valid_range) # "Ok"
                      THEN <<check(e.connection_id, gen_remote_fingerprint(remote_addr),
                                   cookie_valid_range), Some(e.transaction_id)>>
                      ELSE <<e.err, Some(e.transaction_id)>>
                 ELSE <<e.err, transaction_id>>
            ELSE <<e.error, transaction_id>>
    IN  [kind |-> "Error",
         transaction_id |-> IF reported[2] = None THEN 0 ELSE reported[2][1],
         message |-> reported[1]]

\* Request::parse_bytes: a request, or a RequestParseError
parsed(udp_request) == udp_request.kind \in {"Connect", "Announce", "Scrape"}
parse_error(udp_request) ==
    IF udp_request.sendable
    THEN [error |-> "RequestParseError", sendable |-> TRUE,
          connection_id |-> udp_request.connection_id,
          transaction_id |-> udp_request.transaction_id, err |-> "ParseError"]
    ELSE [error |-> "RequestParseError", sendable |-> FALSE, err |-> "ParseError"]

\* handle_packet: the response, the ban counters and the core state after it
handle_packet(udp_request, cookie_time_values) ==
    IF parsed(udp_request)
    THEN {IF out.result.ok
          THEN [response |-> out.result.response, ban_service |-> ban_service, core |-> out]
          ELSE [response |-> handle_error(udp_request.from, cookie_time_values.valid_range,
                                          [error |-> out.result.error],
                                          Some(out.result.transaction_id)),
                ban_service |-> IF out.result.error \in CookieErrors
                                THEN increase_counter(ban_service, udp_request.from[1])
                                ELSE ban_service,
                core |-> out] :
          out \in handle_request(udp_request, udp_request.from, cookie_time_values)}
    ELSE {[response |-> handle_error(udp_request.from, cookie_time_values.valid_range,
                                     parse_error(udp_request), None),
           ban_service |-> ban_service,
           core |-> Untouched(None)]}

\* the UDP engine starts on a running clock, with an empty store
InitUdp ==
    /\ torrents = [h \in {} |-> EmptyEntry]
    /\ db_torrents = [h \in {} |-> 0]
    /\ config \in [external_ip : {NoIp},
                   persistent_torrent_completed_stat : {FALSE},
                   listed : BOOLEAN,
                   private : {FALSE},
                   private_mode : {None},
                   on_reverse_proxy : {FALSE},
                   max_peer_timeout : {MaxPeerTimeout},
                   remove_peerless_torrents : {FALSE}]
    /\ whitelist = {}
    /\ db_whitelist = {}
    /\ keys = {}
    /\ now = 1
    /\ n_requests = 0
    /\ response = NoResponse
    /\ ban_service = [ip \in Ips |-> 0]
    /\ udp = [request |-> NoDatagram, response |-> NoResponse, time |-> 0]
    /\ minted = {}
    /\ loader = NoLoad
    /\ inflight = NoCalls

\* the connection ids a client can put into a datagram
Presentable == {m.connection_id : m \in minted} \cup ForgedIds

\* the datagrams a source can send
Datagrams(from) ==
    {[kind |-> "Connect", from |-> from, transaction_id |-> 1]}
    \cup {[kind |-> "Announce", from |-> from, connection_id |-> c, transaction_id |-> 1,
           info_hash |-> "h1", peer_id |-> PeerIdOf[from], port |-> from[2],
           event |-> "Started", left |-> 1, peers_wanted |-> -1] : c \in Presentable}
    \cup {[kind |-> "Scrape", from |-> from, connection_id |-> c, transaction_id |-> 1,
           info_hashes |-> {"h1"}] : c \in Presentable}
    \cup {[kind |-> "Malformed", from |-> from, sendable |-> TRUE,
           connection_id |-> c, transaction_id |-> 1] : c \in Presentable}
    \cup {[kind |-> "Malformed", from |-> from, sendable |-> FALSE]}

\* a datagram arrives and is answered
HandlePacket ==
    /\ n_requests < MaxPackets
    /\ \E from \in Sources : \E udp_request \in Datagrams(from) :
          \E out \in handle_packet(udp_request, CookieTimeValues_new(CookieLifetime)) :
             /\ torrents' = out.core.torrents
             /\ db_torrents' = out.core.db_torrents
             /\ response' = out.core.response
             /\ ban_service' = out.ban_service
             /\ udp' = [request |-> udp_request, response |-> out.response, time |-> now]
             /\ minted' = IF out.response.kind = "Connect"
                          THEN minted \cup {[connection_id |-> out.response.connection_id,
                                             from |-> from, issue_time |-> now]}
                          ELSE minted
    /\ n_requests' = n_requests + 1
    /\ UNCHANGED <<config, whitelist, db_whitelist, keys, now, loader, inflight>>

\* the clock of the UDP engine advances
TickUdp ==
    /\ now < MaxClock
    /\ now' = now + 1
    /\ UNCHANGED <<torrents, db_torrents, config, whitelist, db_whitelist, keys,
                   n_requests, response, ban_service, udp, minted, loader, inflight>>

NextUdp == HandlePacket \/ TickUdp

SpecUdp == InitUdp /\ [][NextUdp]_vars

----------------------------------------------------------------------------
(* Whitelist and key authentication *)

\* InMemoryWhitelist::add, remove
InMemoryWhitelist_add(set, info_hash) == set \cup {info_hash}
InMemoryWhitelist_remove(set, info_hash) == set \ {info_hash}

\* DatabaseWhitelist::add, remove: nothing to do when already there, or already gone
DatabaseWhitelist_add(table, info_hash) ==
    IF info_hash \in table THEN table ELSE table \cup {info_hash}
DatabaseWhitelist_remove(table, info_hash) ==
    IF info_hash \notin table THEN table ELSE table \ {info_hash}

\* WhitelistManager::add_torrent_to_whitelist: the result and both lists after it
add_torrent_to_whitelist(info_hash, database_fails) ==
    IF database_fails
    THEN [result |-> "DatabaseError", whitelist |-> whitelist, db_whitelist |-> db_whitelist]
    ELSE [result |-> "Ok",
          whitelist |-> InMemoryWhitelist_add(whitelist, info_hash),
          db_whitelist |-> DatabaseWhitelist_add(db_whitelist, info_hash)]

\* WhitelistManager::remove_torrent_from_whitelist
remove_torrent_from_whitelist(info_hash, database_fails) ==
    IF database_fails
    THEN [result |-> "DatabaseError", whitelist |-> whitelist, db_whitelist |-> db_whitelist]
    ELSE [result |-> "Ok",
          whitelist |-> InMemoryWhitelist_remove(whitelist, info_hash),
          db_whitelist |-> DatabaseWhitelist_remove(db_whitelist, info_hash)]

\* InMemoryKeyRepository::get
InMemoryKeyRepository_get(key) ==
    IF \E peer_key \in keys : peer_key.key = key
    THEN Some(CHOOSE peer_key \in keys : peer_key.key = key)
    ELSE None

\* key::verify_key_expiration: "Ok", or the error
verify_key_expiration(auth_key) ==
    IF auth_key.valid_until # None
    THEN IF auth_key.valid_until[1] < now THEN "KeyExpired" ELSE "Ok"
    ELSE "Ok"

\* AuthenticationService::verify_auth_key looking the key up and nothing more
verify_auth_key_without_expiration(key) ==
    IF InMemoryKeyRepository_get(key) = None THEN "UnableToReadKey" ELSE "Ok"

\* AuthenticationService::verify_auth_key
verify_auth_key(key) ==
    LET found == InMemoryKeyRepository_get(key)
    IN  IF found = None
        THEN "UnableToReadKey"
        ELSE IF config.private_mode # None
             THEN IF config.private_mode[1].check_keys_expiration
                  THEN verify_key_expiration(found[1])
                  ELSE "Ok"
             ELSE verify_key_expiration(found[1])

\* AuthenticationService::authenticate
authenticate(key) == IF config.private THEN verify_auth_key(key) ELSE "Ok"

----------------------------------------------------------------------------
(* HTTP tracker: the announce and scrape handlers *)

\* Result<_, responses::error::Error>
HttpErr(e) == [ok |-> FALSE, error |-> e]

\* impl From<u32> for PeersWanted, reached through PeersWanted::only
PeersWanted_only(value) ==
    IF value = 0 THEN AsManyAsPossible ELSE Only(Min(value, TORRENT_PEERS_LIMIT))

\* peer_ip_resolver::invoke: the IP, or None when it cannot be resolved
peer_ip_resolver_invoke(on_reverse_proxy, client_ip_sources) ==
    IF on_reverse_proxy
    THEN client_ip_sources.right_most_x_forwarded_for
    ELSE client_ip_sources.connection_info_ip

\* peer_from_request of the HTTP handler
peer_from_request(announce_request, peer_ip) ==
    [peer_id |-> announce_request.peer_id,
     peer_addr |-> <<peer_ip, announce_request.port>>,
     updated |-> now,
     left |-> announce_request.left,
     event |-> announce_request.event]

\* services::announce::invoke
services_announce_invoke(info_hash, peer, peers_wanted) ==
    announce(info_hash, peer, peer.peer_addr[1], peers_wanted)

\* the HTTP handle_announce authorizing nothing
http_handle_announce_unauthorized(announce_request, client_ip_sources, maybe_key) ==
    LET peer_ip == peer_ip_resolver_invoke(config.on_reverse_proxy, client_ip_sources)
    IN  IF config.private /\ maybe_key = None
        THEN {Untouched(HttpErr("MissingAuthKey"))}
        ELSE IF config.private /\ authenticate(maybe_key[1]) # "Ok"
        THEN {Untouched(HttpErr(authenticate(maybe_key[1])))}
        ELSE IF peer_ip = None
        THEN {Untouched(HttpErr("CannotResolvePeerIp"))}
        ELSE {[result |-> Ok(out.response), torrents |-> out.torrents,
               db_torrents |-> out.db_torrents, response |-> out.response] :
              out \in services_announce_invoke(
                          announce_request.info_hash,
                          peer_from_request(announce_request, peer_ip[1]),
                          IF announce_request.numwant = None
                          THEN AsManyAsPossible
                          ELSE PeersWanted_only(announce_request.numwant[1]))}

\* the HTTP handle_announce
http_handle_announce(announce_request, client_ip_sources, maybe_key) ==
    LET peer_ip == peer_ip_resolver_invoke(config.on_reverse_proxy, client_ip_sources)
    IN  IF config.private /\ maybe_key = None
        THEN {Untouched(HttpErr("MissingAuthKey"))}
        ELSE IF config.private /\ authenticate(maybe_key[1]) # "Ok"
        THEN {Untouched(HttpErr(authenticate(maybe_key[1])))}
        ELSE IF ~authorize(announce_request.info_hash)
        THEN {Untouched(HttpErr("TorrentNotWhitelisted"))}
        ELSE IF peer_ip = None
        THEN {Untouched(HttpErr("CannotResolvePeerIp"))}
        ELSE {[result |-> Ok(out.response), torrents |-> out.torrents,
               db_torrents |-> out.db_torrents, response |-> out.response] :
              out \in services_announce_invoke(
                          announce_request.info_hash,
                          peer_from_request(announce_request, peer_ip[1]),
                          IF announce_request.numwant = None
                          THEN AsManyAsPossible
                          ELSE PeersWanted_only(announce_request.numwant[1]))}

\* InMemoryKeyRepository::insert and remove
InMemoryKeyRepository_insert(ks, auth_key) ==
    {peer_key \in ks : peer_key.key # auth_key.key} \cup {auth_key}
InMemoryKeyRepository_remove(ks, key) == {peer_key \in ks : peer_key.key # key}

\* the largest number of seconds the timestamp type holds (u64::MAX, scaled down)
MaxTimestamp == 7

\* Time::now_add: checked addition on the timestamp type, None on overflow
now_add(add_time) ==
    IF add_time > MaxTimestamp - now THEN None ELSE Some(now + add_time)

\* a call that panicked: the task unwinds and returns nothing
Panicked == [panicked |-> TRUE]

\* key::generate_key: a permanent key, or one valid until now + lifetime;
\* Some(now_add(lifetime).unwrap()) panics when the addition overflows
generate_key(key, lifetime) ==
    IF lifetime = None
    THEN [key |-> key, valid_until |-> None]
    ELSE IF now_add(lifetime[1]) = None
    THEN Panicked
    ELSE [key |-> key, valid_until |-> now_add(lifetime[1])]

\* Tracker::requires_authentication
requires_authentication == config.private

\* services::scrape::invoke and services::scrape::fake
services_scrape_invoke(info_hashes) == scrape(info_hashes)
services_scrape_fake(info_hashes) == [h \in info_hashes |-> zeroed]

\* handle_scrape of the HTTP tracker giving the real data whatever the key
http_handle_scrape_unauthenticated(scrape_request, client_ip_sources, maybe_key) ==
    LET peer_ip == peer_ip_resolver_invoke(config.on_reverse_proxy, client_ip_sources)
    IN  IF peer_ip = None
        THEN HttpErr("CannotResolvePeerIp")
        ELSE Ok(services_scrape_invoke(scrape_request.info_hashes))

\* handle_scrape of the HTTP tracker
http_handle_scrape(scrape_request, client_ip_sources, maybe_key) ==
    LET return_real_scrape_data ==
            IF requires_authentication
            THEN IF maybe_key # None THEN authenticate(maybe_key[1]) = "Ok" ELSE FALSE
            ELSE TRUE
        peer_ip == peer_ip_resolver_invoke(config.on_reverse_proxy, client_ip_sources)
    IN  IF peer_ip = None
        THEN HttpErr("CannotResolvePeerIp")
        ELSE IF return_real_scrape_data
        THEN Ok(services_scrape_invoke(scrape_request.info_hashes))
        ELSE Ok(services_scrape_fake(scrape_request.info_hashes))

----------------------------------------------------------------------------
(* Whitelisted torrents: the whitelist manager, announces and scrapes *)

\* number of operations one behaviour of the whitelist model performs
MaxAccessSteps == 5

\* no datagram is being answered
NoUdp == [request |-> NoDatagram, response |-> NoResponse, time |-> 0]

InitAccess ==
    /\ torrents = [h \in {} |-> EmptyEntry]
    /\ db_torrents = [h \in {} |-> 0]
    /\ config \in [external_ip : {NoIp},
                   persistent_torrent_completed_stat : {FALSE},
                   listed : BOOLEAN,
                   private : {FALSE},
                   private_mode : {None},
                   on_reverse_proxy : {FALSE},
                   max_peer_timeout : {MaxPeerTimeout},
                   remove_peerless_torrents : {FALSE}]
    /\ whitelist = {}
    /\ db_whitelist = {}
    /\ keys = {}
    /\ now = 1
    /\ n_requests = 0
    /\ response = NoResponse
    /\ ban_service = [ip \in Ips |-> 0]
    /\ udp = NoUdp
    /\ minted = {}
    /\ loader = NoLoad
    /\ inflight = NoCalls

\* the administrator whitelists a torrent
AddTorrentToWhitelist ==
    /\ n_requests < MaxAccessSteps
    /\ \E info_hash \in InfoHashes, database_fails \in BOOLEAN :
          LET out == add_torrent_to_whitelist(info_hash, database_fails)
          IN  /\ whitelist' = out.whitelist
              /\ db_whitelist' = out.db_whitelist
              /\ response' = [kind |-> "whitelist", op |-> "add",
                              info_hash |-> info_hash, result |-> out.result]
    /\ n_requests' = n_requests + 1
    /\ udp' = NoUdp
    /\ UNCHANGED <<torrents, db_torrents, config, keys, now, ban_service, minted, loader, inflight>>

\* the administrator takes a torrent off the whitelist
RemoveTorrentFromWhitelist ==
    /\ n_requests < MaxAccessSteps
    /\ \E info_hash \in InfoHashes, database_fails \in BOOLEAN :
          LET out == remove_torrent_from_whitelist(info_hash, database_fails)
          IN  /\ whitelist' = out.whitelist
              /\ db_whitelist' = out.db_whitelist
              /\ response' = [kind |-> "whitelist", op |-> "remove",
                              info_hash |-> info_hash, result |-> out.result]
    /\ n_requests' = n_requests + 1
    /\ udp' = NoUdp
    /\ UNCHANGED <<torrents, db_torrents, config, keys, now, ban_service, minted, loader, inflight>>

\* a handler asks whether a torrent may be tracked
Authorize ==
    /\ n_requests < MaxAccessSteps
    /\ \E info_hash \in {"h1"} :
          response' = [kind |-> "authorize", info_hash |-> info_hash,
                       result |-> authorize(info_hash)]
    /\ n_requests' = n_requests + 1
    /\ udp' = NoUdp
    /\ UNCHANGED <<torrents, db_torrents, config, whitelist, db_whitelist, keys, now,
                   ban_service, minted, loader, inflight>>

\* an announce over HTTP
HttpAnnounceOf(announce_requests, client_ips, maybe_keys) ==
    \E announce_request \in announce_requests, client_ip_sources \in client_ips,
       maybe_key \in maybe_keys :
       \E out \in http_handle_announce(announce_request, client_ip_sources, maybe_key) :
          /\ torrents' = out.torrents
          /\ db_torrents' = out.db_torrents
          /\ response' = IF out.result.ok
                         THEN out.response
                         ELSE [kind |-> "http_error", of |-> "announce",
                               info_hash |-> announce_request.info_hash,
                               maybe_key |-> maybe_key,
                               error |-> out.result.error]

\* the HTTP announces of the whitelist model: p2 on h1, from ip2
HttpAnnounce ==
    /\ n_requests < MaxAccessSteps
    /\ HttpAnnounceOf({[info_hash |-> "h1", peer_id |-> "p2", port |-> 2,
                        event |-> a[1], left |-> a[2], numwant |-> None] :
                       a \in {<<"Started", 1>>, <<"Completed", 0>>}},
                      {[right_most_x_forwarded_for |-> None,
                        connection_info_ip |-> Some("ip2")]},
                      {None})
    /\ n_requests' = n_requests + 1
    /\ udp' = NoUdp
    /\ UNCHANGED <<config, whitelist, db_whitelist, keys, now, ban_service, minted, loader, inflight>>

\* an announce over UDP by a client that has just connected: p1 on h1, from ip1:1
UdpAnnounce ==
    /\ n_requests < MaxAccessSteps
    /\ LET from == <<"ip1", 1>>
           udp_request == [kind |-> "Announce", from |-> from,
                           connection_id |-> make(gen_remote_fingerprint(from), now),
                           transaction_id |-> 1, info_hash |-> "h1",
                           peer_id |-> PeerIdOf[from], port |-> from[2],
                           event |-> "Started", left |-> 1, peers_wanted |-> -1]
       IN  \E out \in handle_packet(udp_request, CookieTimeValues_new(CookieLifetime)) :
              /\ torrents' = out.core.torrents
              /\ db_torrents' = out.core.db_torrents
              /\ response' = out.core.response
              /\ ban_service' = out.ban_service
              /\ udp' = [request |-> udp_request, response |-> out.response, time |-> now]
    /\ n_requests' = n_requests + 1
    /\ UNCHANGED <<config, whitelist, db_whitelist, keys, now, minted, loader, inflight>>

\* a scrape reaching the core handler
Scrape ==
    /\ n_requests < MaxAccessSteps
    /\ \E info_hashes \in {{"h1"}, {"h1", "h2"}} :
          /\ response' = [kind |-> "scrape", info_hashes |-> info_hashes,
                          files |-> scrape(info_hashes)]
          /\ torrents' = after_scrape(torrents, info_hashes)
    /\ n_requests' = n_requests + 1
    /\ udp' = NoUdp
    /\ UNCHANGED <<db_torrents, config, whitelist, db_whitelist, keys, now,
                   ban_service, minted, loader, inflight>>

NextAccess ==
    \/ AddTorrentToWhitelist
    \/ RemoveTorrentFromWhitelist
    \/ Authorize
    \/ HttpAnnounce
    \/ UdpAnnounce
    \/ Scrape

SpecAccess == InitAccess /\ [][NextAccess]_vars

----------------------------------------------------------------------------
(* Properties of the swarm store and the announce handler *)

\* the step is an announce served by the core handler
AnnounceStep == n_requests' = n_requests + 1 /\ response'.kind = "announce"

Peers(ts, h) == IF h \in DOMAIN ts THEN ts[h].peers ELSE {}
Downloaded(ts, h) == IF h \in DOMAIN ts THEN ts[h].downloaded ELSE 0
Known(ts, h, peer_id) == \E q \in Peers(ts, h) : q.peer_id = peer_id

\* C1: an announce with event Completed from PeerId P against H raises
\* downloaded(H) by exactly 1 iff P was in H's peer table just before the
\* upsert, and leaves it unchanged otherwise.
C1_CompletedCountsKnownPeers ==
    [][(AnnounceStep /\ response'.peer.event = "Completed") =>
        LET h == response'.info_hash
            P == response'.peer.peer_id
        IN  Downloaded(torrents', h) =
                Downloaded(torrents, h) + (IF Known(torrents, h, P) THEN 1 ELSE 0)]_vars

\* a Completed announce of a known peer was counted
C1_Witness ==
    /\ response.kind = "announce"
    /\ response.peer.event = "Completed"
    /\ response.stats.downloaded = 1

\* C2: the downloaded counter of every torrent never decreases across announces.
C2_DownloadedMonotonic ==
    [][AnnounceStep =>
        \A h \in InfoHashes : Downloaded(torrents', h) >= Downloaded(torrents, h)]_vars

\* a counter that moved, followed by a further announce on the same torrent
C2_Witness ==
    /\ response.kind = "announce"
    /\ response.peer.event # "Completed"
    /\ Downloaded(torrents, response.info_hash) >= 1

\* C5: a peer table holds at most one record per PeerId, and after an announce
\* that record is exactly the announced peer; the other records are untouched.
C5_ReplacedNotMerged ==
    [][/\ \A h \in DOMAIN torrents' : \A p, q \in torrents'[h].peers :
            p.peer_id = q.peer_id => p = q
       /\ AnnounceStep =>
            /\ response'.peer \in Peers(torrents', response'.info_hash)
            /\ \A h \in DOMAIN torrents : \A q \in torrents[h].peers :
                 (h # response'.info_hash \/ q.peer_id # response'.peer.peer_id)
                    => q \in Peers(torrents', h)]_vars

\* a peer re-announced with other fields: a leecher that is now a seeder
C5_Witness ==
    /\ response.kind = "announce"
    /\ response.peer.left = 0
    /\ response.stats.downloaded >= 1
    /\ response.stats.complete = 1
    /\ response.stats.incomplete = 0
    /\ Cardinality(Peers(torrents, response.info_hash)) = 1

\* a peer is active iff now - updated <= max_peer_timeout
Active(ts, h) == {p \in Peers(ts, h) : now - p.updated <= MaxPeerTimeout}

----------------------------------------------------------------------------
(* Properties of the neighbour list (SpecNeighbors) *)

\* C3: the neighbour list of an announce has at most
\* min(peers_wanted.limit(), TORRENT_PEERS_LIMIT) peers.
C3_NeighborsWithinLimit ==
    response.kind = "announce" =>
        Cardinality(response.peers) <= Min(limit(response.peers_wanted), TORRENT_PEERS_LIMIT)

\* C4: the neighbour list of an announce holds no peer whose socket address
\* is the one stored for the announcing peer.
C4_RequesterExcluded ==
    response.kind = "announce" =>
        \A q \in response.peers : q.peer_addr # response.peer.peer_addr

\* another peer shares the requester's address, a third one is returned
C4_Witness ==
    /\ response.kind = "announce"
    /\ response.peers # {}
    /\ \E q \in Peers(torrents, response.info_hash) :
          q.peer_id # response.peer.peer_id /\ q.peer_addr = response.peer.peer_addr

----------------------------------------------------------------------------
(* Properties of the UDP protocol engine (SpecUdp) *)

\* the step is a datagram answered by the UDP engine
PacketStep == n_requests' = n_requests + 1 /\ udp'.request.kind # "none"

\* the last datagram was an Announce or a Scrape
CarriesConnectionId == udp.request.kind \in {"Announce", "Scrape"}

\* the last response is an Error reporting a connection-id failure
CookieRejected == udp.response.kind = "Error" /\ udp.response.message \in CookieErrors

\* the last datagram presented, from source `from`, the connection id of `m`
Presents(m, from) ==
    /\ CarriesConnectionId
    /\ udp.request.from = from
    /\ udp.request.connection_id = m.connection_id
    /\ udp.time >= m.issue_time

\* C7 as claimed: a connection id minted at t0 for S is accepted from S at
\* every time in [t0, t0 + cookie_lifetime] and rejected at every later time.
C7_AcceptedExactlyWithinLifetime ==
    \A m \in minted :
        Presents(m, m.from) =>
            (~CookieRejected <=> udp.time <= m.issue_time + CookieLifetime)

\* C7 as amended: a connection id minted at t0 for S is accepted from S at
\* every time in [t0, t0 + cookie_lifetime + 1 s] and rejected at every later time.
C7_AcceptedWithinLifetimeAndSlack ==
    \A m \in minted :
        Presents(m, m.from) =>
            (~CookieRejected <=> udp.time <= m.issue_time + CookieLifetime + 1)

\* the id is presented one second after its lifetime ran out, and the announce is served
C7_Witness ==
    \E m \in minted :
        /\ Presents(m, m.from)
        /\ udp.time = m.issue_time + CookieLifetime + 1
        /\ udp.response.kind = "Announce"

\* C8: an Announce or Scrape whose connection id fails the cookie check for the
\* datagram's source is answered with an Error and leaves the swarm store
\* unchanged; one whose connection id passes is not stopped by the cookie.
C8_ProcessedOnlyWithValidCookie ==
    [][(PacketStep /\ udp'.request.kind \in {"Announce", "Scrape"}) =>
          LET request == udp'.request
              checked == check(request.connection_id, Fingerprint[request.from],
                               [start |-> now - CookieLifetime - 1, end |-> now + 1])
          IN  IF checked = "Ok"
              THEN udp'.response.kind = "Error" => udp'.response.message \notin CookieErrors
              ELSE /\ udp'.response.kind = "Error"
                   /\ udp'.response.message = checked
                   /\ torrents' = torrents
                   /\ db_torrents' = db_torrents]_vars

\* an announce with an unacceptable connection id got an Error; the store holds a swarm
C8_Witness ==
    /\ udp.request.kind = "Announce"
    /\ CookieRejected
    /\ "h1" \in DOMAIN torrents

\* C9: whenever the UDP engine emits an Error response that reports a
\* connection-id failure, the ban counter of the datagram's source IP has been
\* incremented for that datagram.
C9_CookieErrorsCounted ==
    [][(PacketStep /\ udp'.response.kind = "Error"
                   /\ udp'.response.message \in CookieErrors) =>
          ban_service'[udp'.request.from[1]] = ban_service[udp'.request.from[1]] + 1]_vars

\* the issue time a source other than the minting one makes the cookie check see
SeenFrom(m, from) == Xor(Xor(m.issue_time, Fingerprint[m.from]), Fingerprint[from])

\* C10 as claimed: a connection id minted for S is rejected when an Announce or
\* Scrape presents it from a different source address.
C10_RejectedFromOtherSource ==
    \A m \in minted : \A from \in Sources \ {m.from} :
        Presents(m, from) => CookieRejected

\* C10 as amended: a connection id minted for S and presented from S' is
\* rejected exactly when the issue time XOR fingerprint(S) XOR fingerprint(S')
\* is not a normal value or lies outside [now - cookie_lifetime - 1, now + 1].
C10_RejectedUnlessDecodesInRange ==
    \A m \in minted : \A from \in Sources \ {m.from} :
        Presents(m, from) =>
            (CookieRejected <=> \/ SeenFrom(m, from) = 0
                                \/ SeenFrom(m, from) < udp.time - CookieLifetime - 1
                                \/ SeenFrom(m, from) > udp.time + 1)

\* an announce with another source's connection id is served
C10_Witness ==
    \E m \in minted : \E from \in Sources \ {m.from} :
        /\ Presents(m, from)
        /\ udp.response.kind = "Announce"

----------------------------------------------------------------------------
(* Private trackers: keys, authentication and the HTTP handlers *)

\* number of requests one behaviour of the key model performs
MaxKeySteps == 4
\* the key model's clock stops here
MaxKeyClock == 3
\* lifetime of an expiring key, in seconds
KeyLifetime == 1

Keys == {"k1", "k2"}

\* a client behind the reverse proxy, with and without an X-Forwarded-For header
ClientIpSources ==
    {[right_most_x_forwarded_for |-> x, connection_info_ip |-> Some("ip1")] :
     x \in {None, Some("ip2")}}

InitKeys ==
    /\ torrents = [h \in {} |-> EmptyEntry]
    /\ db_torrents = [h \in {} |-> 0]
    /\ config \in [external_ip : {NoIp},
                   persistent_torrent_completed_stat : {FALSE},
                   listed : {FALSE},
                   private : BOOLEAN,
                   private_mode : {None, Some([check_keys_expiration |-> TRUE]),
                                   Some([check_keys_expiration |-> FALSE])},
                   on_reverse_proxy : {TRUE},
                   max_peer_timeout : {MaxPeerTimeout},
                   remove_peerless_torrents : {FALSE}]
    /\ whitelist = {}
    /\ db_whitelist = {}
    /\ keys = {}
    /\ now = 1
    /\ n_requests = 0
    /\ response = NoResponse
    /\ ban_service = [ip \in Ips |-> 0]
    /\ udp = NoUdp
    /\ minted = {}
    /\ loader = NoLoad
    /\ inflight = NoCalls

\* the administrator registers key k1, permanent or expiring
AddKey ==
    /\ n_requests < MaxKeySteps
    /\ \E lifetime \in {None, Some(KeyLifetime)} :
          LET auth_key == generate_key("k1", lifetime)
          IN  /\ keys' = InMemoryKeyRepository_insert(keys, auth_key)
              /\ response' = [kind |-> "key", op |-> "insert", auth_key |-> auth_key]
    /\ n_requests' = n_requests + 1
    /\ UNCHANGED <<torrents, db_torrents, config, whitelist, db_whitelist, now,
                   ban_service, udp, minted, loader, inflight>>

\* the administrator removes key k1
RemoveKey ==
    /\ n_requests < MaxKeySteps
    /\ keys' = InMemoryKeyRepository_remove(keys, "k1")
    /\ response' = [kind |-> "key", op |-> "remove", key |-> "k1"]
    /\ n_requests' = n_requests + 1
    /\ UNCHANGED <<torrents, db_torrents, config, whitelist, db_whitelist, now,
                   ban_service, udp, minted, loader, inflight>>

\* a handler authenticates a key
Authenticate ==
    /\ n_requests < MaxKeySteps
    /\ \E key \in Keys :
          response' = [kind |-> "authenticate", key |-> key, time |-> now,
                       result |-> authenticate(key)]
    /\ n_requests' = n_requests + 1
    /\ UNCHANGED <<torrents, db_torrents, config, whitelist, db_whitelist, keys, now,
                   ban_service, udp, minted, loader, inflight>>

\* an announce over HTTP through the reverse proxy: p2 on h1, with or without a key
KeyedAnnounce ==
    /\ n_requests < MaxKeySteps
    /\ HttpAnnounceOf({[info_hash |-> "h1", peer_id |-> "p2", port |-> 2,
                        event |-> "Started", left |-> 1, numwant |-> None]},
                      {[right_most_x_forwarded_for |-> Some("ip2"),
                        connection_info_ip |-> Some("ip1")]},
                      {None, Some("k1")})
    /\ n_requests' = n_requests + 1
    /\ UNCHANGED <<config, whitelist, db_whitelist, keys, now, ban_service, udp, minted, loader, inflight>>

\* a scrape over HTTP
HttpScrape ==
    /\ n_requests < MaxKeySteps
    /\ \E info_hashes \in {{"h1"}, {"h1", "h2"}}, client_ip_sources \in ClientIpSources,
          maybe_key \in {None, Some("k1"), Some("k2")} :
          response' = [kind |-> "http_scrape", info_hashes |-> info_hashes,
                       client_ip_sources |-> client_ip_sources,
                       maybe_key |-> maybe_key, time |-> now,
                       result |-> http_handle_scrape([info_hashes |-> info_hashes],
                                                     client_ip_sources, maybe_key)]
    /\ n_requests' = n_requests + 1
    /\ UNCHANGED <<torrents, db_torrents, config, whitelist, db_whitelist, keys, now,
                   ban_service, udp, minted, loader, inflight>>

\* time passes
TickKeys ==
    /\ now < MaxKeyClock
    /\ now' = now + 1
    /\ UNCHANGED <<torrents, db_torrents, config, whitelist, db_whitelist, keys,
                   n_requests, response, ban_service, udp, minted, loader, inflight>>

NextKeys ==
    \/ AddKey
    \/ RemoveKey
    \/ Authenticate
    \/ KeyedAnnounce
    \/ HttpScrape
    \/ TickKeys

SpecKeys == InitKeys /\ [][NextKeys]_vars

----------------------------------------------------------------------------
(* Torrent maintenance: the cleanup of inactive peers and peerless torrents *)

\* Entry::remove_inactive_peers: drops the peers whose updated < cutoff
Entry_remove_inactive_peers(entry, current_cutoff) ==
    [entry EXCEPT !.peers = {p \in @ : ~(p.updated < current_cutoff)}]

\* Repository::remove_inactive_peers, across all entries
Torrents_remove_inactive_peers(ts, current_cutoff) ==
    [h \in DOMAIN ts |-> Entry_remove_inactive_peers(ts[h], current_cutoff)]

\* Repository::remove_peerless_torrents: drops the entries with an empty peer table
Torrents_remove_peerless_torrents(ts, policy) ==
    [h \in {i \in DOMAIN ts : ts[i].peers # {}} |-> ts[h]]

\* InMemoryTorrentRepository::remove_inactive_peers and remove_peerless_torrents
remove_inactive_peers(ts, current_cutoff) == Torrents_remove_inactive_peers(ts, current_cutoff)
remove_peerless_torrents(ts, policy) == Torrents_remove_peerless_torrents(ts, policy)

\* CurrentClock::now_sub: None when the subtraction would go below the epoch
now_sub(duration) == IF duration <= now THEN Some(now - duration) ELSE None

\* Option::unwrap_or_default on a duration
unwrap_or_default(option) == IF option = None THEN 0 ELSE option[1]

\* config.tracker_policy
tracker_policy ==
    [max_peer_timeout |-> config.max_peer_timeout,
     remove_peerless_torrents |-> config.remove_peerless_torrents,
     persistent_torrent_completed_stat |-> config.persistent_torrent_completed_stat]

\* cleanup_torrents taking the current time as the cutoff
cleanup_torrents_without_timeout ==
    LET swept == remove_inactive_peers(torrents, now)
    IN  IF tracker_policy.remove_peerless_torrents
        THEN remove_peerless_torrents(swept, tracker_policy)
        ELSE swept

\* cleanup_torrents never removing a torrent
cleanup_torrents_keeping_peerless ==
    remove_inactive_peers(torrents, unwrap_or_default(now_sub(tracker_policy.max_peer_timeout)))

\* cleanup_torrents removing peerless torrents whatever the policy
cleanup_torrents_removing_peerless ==
    remove_peerless_torrents(
        remove_inactive_peers(torrents, unwrap_or_default(now_sub(tracker_policy.max_peer_timeout))),
        tracker_policy)

\* TorrentsManager::cleanup_torrents: the store it leaves
cleanup_torrents ==
    LET current_cutoff == unwrap_or_default(now_sub(tracker_policy.max_peer_timeout))
        swept == remove_inactive_peers(torrents, current_cutoff)
    IN  IF tracker_policy.remove_peerless_torrents
        THEN remove_peerless_torrents(swept, tracker_policy)
        ELSE swept

InitCleanup ==
    /\ torrents = [h \in {} |-> EmptyEntry]
    /\ db_torrents = [h \in {} |-> 0]
    /\ config \in [external_ip : {NoIp},
                   persistent_torrent_completed_stat : BOOLEAN,
                   listed : {FALSE},
                   private : {FALSE},
                   private_mode : {None},
                   on_reverse_proxy : {FALSE},
                   max_peer_timeout : {MaxPeerTimeout},
                   remove_peerless_torrents : BOOLEAN]
    /\ whitelist = {}
    /\ db_whitelist = {}
    /\ keys = {}
    /\ now = 0
    /\ n_requests = 0
    /\ response = NoResponse
    /\ ban_service = [ip \in Ips |-> 0]
    /\ udp = NoUdp
    /\ minted = {}
    /\ loader = NoLoad
    /\ inflight = NoCalls

\* announces of p1 and p2 on h1, with every event
CleanupAnnounce ==
    AnnounceOf({"h1"}, {<<"p1", "ip1", 1>>, <<"p2", "ip2", 1>>},
               {<<"Started", 1>>, <<"Completed", 0>>, <<"Stopped", 1>>}, {-1})

\* one run of the maintenance job
CleanupTorrents ==
    /\ torrents' = cleanup_torrents
    /\ response' = [kind |-> "cleanup", time |-> now, before |-> torrents]
    /\ udp' = NoUdp
    /\ UNCHANGED <<db_torrents, config, whitelist, db_whitelist, keys, now, n_requests,
                   ban_service, minted, loader, inflight>>

NextCleanup ==
    \/ CleanupAnnounce
    \/ Scrape
    \/ CleanupTorrents
    \/ Tick

SpecCleanup == InitCleanup /\ [][NextCleanup]_vars

----------------------------------------------------------------------------
(* Persistence of the download counters, and the start of the application *)

\* number of operations one behaviour of the persistence model performs
MaxPersistSteps == 4

\* Database::load_persistent_torrents: the rows (info_hash, completed) of the table
load_persistent_torrents(db) == db

\* Repository::import_persistent: sets the downloaded counter of each listed
\* infohash, creating an entry without peers where there is none
Torrents_import_persistent(ts, persistent_torrents) ==
    [h \in DOMAIN ts \cup DOMAIN persistent_torrents |->
        IF h \in DOMAIN persistent_torrents
        THEN IF h \in DOMAIN ts
             THEN [ts[h] EXCEPT !.downloaded = persistent_torrents[h]]
             ELSE [EmptyEntry EXCEPT !.downloaded = persistent_torrents[h]]
        ELSE ts[h]]

\* InMemoryTorrentRepository::import_persistent bringing nothing into the store
import_persistent_nothing(ts, persistent_torrents) == ts

\* InMemoryTorrentRepository::import_persistent
import_persistent(ts, persistent_torrents) ==
    Torrents_import_persistent(ts, persistent_torrents)

\* TorrentsManager::load_torrents_from_database: the result and the store it leaves
load_torrents_from_database(database_fails) ==
    IF database_fails
    THEN [result |-> "DatabaseError", torrents |-> torrents]
    ELSE [result |-> "Ok",
          torrents |-> import_persistent(torrents, load_persistent_torrents(db_torrents))]

\* WhitelistManager::load_whitelist_from_database, run to its end
load_whitelist_from_database == db_whitelist

\* initialize_app_container followed by app::start: the memory of the new
\* process. The store starts empty; app::start loads the keys of a private
\* tracker and the whitelist of a listed one, and nothing else.
start ==
    [torrents  |-> [h \in {} |-> EmptyEntry],
     whitelist |-> IF config.listed THEN load_whitelist_from_database ELSE {},
     keys      |-> IF config.private THEN keys ELSE {}]

InitPersist ==
    /\ torrents = [h \in {} |-> EmptyEntry]
    /\ db_torrents = [h \in {} |-> 0]
    /\ config \in [external_ip : {NoIp},
                   persistent_torrent_completed_stat : BOOLEAN,
                   listed : {FALSE},
                   private : {FALSE},
                   private_mode : {None},
                   on_reverse_proxy : {FALSE},
                   max_peer_timeout : {MaxPeerTimeout},
                   remove_peerless_torrents : {FALSE}]
    /\ whitelist = {}
    /\ db_whitelist = {}
    /\ keys = {}
    /\ now = 0
    /\ n_requests = 0
    /\ response = NoResponse
    /\ ban_service = [ip \in Ips |-> 0]
    /\ udp = NoUdp
    /\ minted = {}
    /\ loader = NoLoad
    /\ inflight = NoCalls

\* an announce of p1 or p2, on a database that takes the save or fails it
PersistAnnounce ==
    /\ n_requests < MaxPersistSteps
    /\ \E info_hash \in InfoHashes, client \in {<<"p1", "ip1", 1>>, <<"p2", "ip2", 1>>},
          a \in {<<"Started", 1>>, <<"Completed", 0>>}, database_fails \in BOOLEAN :
          LET announce_request == [peer_id |-> client[1], port |-> client[3],
                                   event |-> a[1], left |-> a[2]]
          IN  \E out \in announce_saving(database_fails, info_hash,
                                         from_request(announce_request, client[2]),
                                         client[2], AsManyAsPossible) :
                 /\ torrents' = out.torrents
                 /\ db_torrents' = out.db_torrents
                 /\ response' = [kind |-> out.response.kind,
                                 info_hash |-> info_hash,
                                 peer |-> out.response.peer,
                                 announce_data |-> out.response,
                                 before |-> get_swarm_metadata(torrents, info_hash),
                                 saves |-> out.saves,
                                 database_fails |-> database_fails]
    /\ n_requests' = n_requests + 1
    /\ UNCHANGED <<config, whitelist, db_whitelist, keys, now, ban_service, udp, minted, loader, inflight>>

\* the process is stopped and the application started again
Start ==
    /\ n_requests < MaxPersistSteps
    /\ torrents' = start.torrents
    /\ whitelist' = start.whitelist
    /\ keys' = start.keys
    /\ response' = [kind |-> "start"]
    /\ n_requests' = n_requests + 1
    /\ UNCHANGED <<db_torrents, config, db_whitelist, now, ban_service, udp, minted, loader, inflight>>

\* the torrents are loaded from the database
LoadTorrents ==
    /\ n_requests < MaxPersistSteps
    /\ \E database_fails \in BOOLEAN :
          LET out == load_torrents_from_database(database_fails)
          IN  /\ torrents' = out.torrents
              /\ response' = [kind |-> "load", result |-> out.result, before |-> torrents]
    /\ n_requests' = n_requests + 1
    /\ UNCHANGED <<db_torrents, config, whitelist, db_whitelist, keys, now, ban_service,
                   udp, minted, loader, inflight>>

NextPersist ==
    \/ PersistAnnounce
    \/ Start
    \/ LoadTorrents

SpecPersist == InitPersist /\ [][NextPersist]_vars

----------------------------------------------------------------------------
(* Properties of the whitelist, of rejected announces and of scrapes *)

\* C11: authorize(info_hash) is Ok exactly when the tracker is public
\* (listed = FALSE) or the infohash is in the in-memory whitelist; in listed
\* mode an infohash outside the set gets the not-whitelisted error.
C11_AuthorizedIffPublicOrListed ==
    response.kind = "authorize" =>
        /\ response.result <=> (~config.listed \/ response.info_hash \in whitelist)
        /\ (config.listed /\ response.info_hash \notin whitelist) => ~response.result

\* a listed tracker has refused an infohash that is not whitelisted
C11_Witness ==
    /\ response.kind = "authorize"
    /\ config.listed
    /\ response.info_hash \notin whitelist
    /\ ~response.result

\* the step answers an announce for info_hash that came over UDP
UdpAnnounceStep(info_hash) ==
    /\ udp'.request.kind = "Announce"
    /\ udp'.request.info_hash = info_hash
    /\ n_requests' = n_requests + 1

\* the step answers an announce for info_hash that came over HTTP
HttpAnnounceStep(info_hash) ==
    /\ udp' = NoUdp
    /\ n_requests' = n_requests + 1
    /\ \/ response'.kind = "announce"
       \/ response'.kind = "http_error" /\ response'.of = "announce"
    /\ response'.info_hash = info_hash

\* C12: an announce, over UDP or over HTTP, for an infohash that fails the
\* whitelist authorization is answered with an error the client sees (UDP: an
\* Error response carrying the tracker error; HTTP: the error response) and
\* leaves the swarm store as it was: no entry created, no peer inserted or
\* updated, no counter changed.
C12_UnauthorizedAnnounceRejected ==
    [][\A info_hash \in InfoHashes :
          ~authorize(info_hash) =>
              /\ UdpAnnounceStep(info_hash) =>
                    /\ udp'.response.kind = "Error"
                    /\ udp'.response.message = "TrackerError"
                    /\ torrents' = torrents
                    /\ db_torrents' = db_torrents
              /\ HttpAnnounceStep(info_hash) =>
                    /\ response'.kind = "http_error"
                    /\ response'.error = "TorrentNotWhitelisted"
                    /\ torrents' = torrents
                    /\ db_torrents' = db_torrents]_vars

\* an announce over HTTP and one over UDP have been refused for an infohash
\* that is not whitelisted, after the torrent had gathered a peer
C12_Witness ==
    /\ config.listed
    /\ "h1" \notin whitelist
    /\ "h1" \in DOMAIN torrents
    /\ torrents["h1"].peers # {}
    /\ \/ /\ response.kind = "http_error"
          /\ response.error = "TorrentNotWhitelisted"
       \/ /\ udp.request.kind = "Announce"
          /\ udp.response.kind = "Error"
          /\ udp.response.message = "TrackerError"

\* C13: a scrape reports zeroed metadata for every requested infohash that is
\* unknown to the swarm store or that fails the whitelist authorization, even
\* when that torrent has peers and completed downloads; every requested
\* infohash gets a metadata record, none gets an error.
C13_ScrapeZeroedForUnknownOrUnauthorized ==
    response.kind = "scrape" =>
        /\ DOMAIN response.files = response.info_hashes
        /\ \A h \in response.info_hashes :
              /\ response.files[h] \in [downloaded : Nat, complete : Nat, incomplete : Nat]
              /\ (h \notin DOMAIN torrents \/ ~authorize(h)) => response.files[h] = zeroed

\* a scrape of h1 and h2 where h1 has a peer and a completed download but is
\* not whitelisted, and h2 is unknown to the store: both are reported as zeros
C13_Witness ==
    /\ response.kind = "scrape"
    /\ response.info_hashes = {"h1", "h2"}
    /\ config.listed
    /\ "h1" \notin whitelist
    /\ "h1" \in DOMAIN torrents
    /\ torrents["h1"].peers # {}
    /\ torrents["h1"].downloaded > 0
    /\ "h2" \notin DOMAIN torrents
    /\ response.files["h1"] = zeroed
    /\ response.files["h2"] = zeroed

\* the step is a scrape
ScrapeStep ==
    /\ response'.kind = "scrape"
    /\ udp' = NoUdp
    /\ n_requests' = n_requests + 1

\* C14: a scrape creates no torrent entry and changes nothing in the swarm
\* store: the set of entries, every peer table and every downloaded counter
\* are the same before and after it, also when it asks for unknown infohashes.
C14_ScrapeLeavesStore ==
    [][ScrapeStep =>
          /\ DOMAIN torrents' = DOMAIN torrents
          /\ \A h \in DOMAIN torrents :
                /\ torrents'[h].peers = torrents[h].peers
                /\ torrents'[h].downloaded = torrents[h].downloaded
          /\ db_torrents' = db_torrents]_vars

\* a public tracker has answered a scrape of h1, which has a peer, and of h2,
\* which the store does not know and still does not know
C14_Witness ==
    /\ response.kind = "scrape"
    /\ response.info_hashes = {"h1", "h2"}
    /\ ~config.listed
    /\ "h1" \in DOMAIN torrents
    /\ torrents["h1"].peers # {}
    /\ response.files["h1"] # zeroed
    /\ "h2" \notin DOMAIN torrents

----------------------------------------------------------------------------
(* Properties of key authentication and of the HTTP scrape *)

\* keys are checked for expiration unless the private-mode options say otherwise
check_keys_expiration ==
    config.private_mode = None \/ config.private_mode[1].check_keys_expiration

\* the key is registered in the in-memory key map
Registered(key) == \E peer_key \in keys : peer_key.key = key

\* the registered key carries a valid_until that lies in the past
InThePast(key) ==
    \E peer_key \in keys :
        /\ peer_key.key = key
        /\ peer_key.valid_until # None
        /\ peer_key.valid_until[1] < now

\* C15: in private mode authenticate(key) is Ok exactly when the key is
\* registered in the in-memory key map and it has no valid_until, or its
\* valid_until is not in the past, or check_keys_expiration is off; an
\* unregistered key gets the unknown-key error, and a registered key whose
\* valid_until is in the past gets the expired error while
\* check_keys_expiration is on. (Stated of the answer at the time it is given.)
C15_AuthenticatedIffRegisteredAndValid ==
    (response.kind = "authenticate" /\ response.time = now /\ config.private) =>
        /\ response.result = "Ok" <=>
              /\ Registered(response.key)
              /\ ~InThePast(response.key) \/ ~check_keys_expiration
        /\ ~Registered(response.key) => response.result = "UnableToReadKey"
        /\ (Registered(response.key) /\ InThePast(response.key) /\ check_keys_expiration)
              => response.result = "KeyExpired"

\* a private tracker that checks expiration has refused a registered key one
\* second after its valid_until
C15_Witness ==
    /\ response.kind = "authenticate"
    /\ response.time = now
    /\ config.private
    /\ config.private_mode = Some([check_keys_expiration |-> TRUE])
    /\ Registered(response.key)
    /\ InThePast(response.key)
    /\ response.result = "KeyExpired"

\* the recorded HTTP scrape came without a key, or with one that fails authentication
Unauthenticated ==
    \/ response.maybe_key = None
    \/ authenticate(response.maybe_key[1]) # "Ok"

\* a private tracker has just answered an HTTP scrape that was not authenticated
UnauthenticatedScrape ==
    /\ response.kind = "http_scrape"
    /\ response.time = now
    /\ config.private
    /\ Unauthenticated

\* every requested infohash is reported as zeros
AllZeroed ==
    /\ response.result.ok
    /\ DOMAIN response.result.response = response.info_hashes
    /\ \A h \in response.info_hashes : response.result.response[h] = zeroed

\* C16 as stated: in private mode an HTTP scrape without a key, or with a key
\* that fails authentication, returns zeroed metadata for all the requested
\* infohashes whatever the store holds, and not an error.
C16_UnauthenticatedScrapeZeroed ==
    UnauthenticatedScrape => AllZeroed

\* C16: in private mode an HTTP scrape without a key, or with a key that fails
\* authentication, returns zeroed metadata for all the requested infohashes
\* whatever the store holds, provided the client's IP can be resolved; when it
\* cannot, the scrape is answered with the IP resolution error, again
\* whatever the store holds.
C16_UnauthenticatedScrapeZeroedIfResolved ==
    UnauthenticatedScrape =>
        IF peer_ip_resolver_invoke(config.on_reverse_proxy, response.client_ip_sources) = None
        THEN response.result = HttpErr("CannotResolvePeerIp")
        ELSE AllZeroed

\* a private tracker whose store holds a peer on h1 has answered a scrape of h1
\* that presented a key it does not accept, from a resolvable IP, with zeros
C16_Witness ==
    /\ UnauthenticatedScrape
    /\ response.maybe_key # None
    /\ "h1" \in response.info_hashes
    /\ "h1" \in DOMAIN torrents
    /\ torrents["h1"].peers # {}
    /\ get_swarm_metadata(torrents, "h1") # zeroed
    /\ AllZeroed

----------------------------------------------------------------------------
(* Properties of the torrent maintenance *)

\* the step is one run of the maintenance job
CleanupStep ==
    /\ response'.kind = "cleanup"
    /\ response'.time = now
    /\ response'.before = torrents
    /\ now' = now
    /\ n_requests' = n_requests

\* C17: after a maintenance sweep every peer p left in every torrent has
\* now - p.updated <= max_peer_timeout, and the sweep removes no peer that was
\* updated at or after the cutoff now - max_peer_timeout.
C17_SweepRemovesExactlyInactivePeers ==
    [][CleanupStep =>
          /\ \A h \in DOMAIN torrents' : \A p \in torrents'[h].peers :
                now - p.updated <= config.max_peer_timeout
          /\ \A h \in DOMAIN torrents : \A p \in torrents[h].peers :
                p.updated >= now - config.max_peer_timeout
                    => (h \in DOMAIN torrents' /\ p \in torrents'[h].peers)]_vars

\* a sweep has removed a peer of h1 and kept one that was updated exactly at
\* the cutoff
C17_Witness ==
    /\ response.kind = "cleanup"
    /\ response.time = now
    /\ "h1" \in DOMAIN torrents
    /\ \E p \in response.before["h1"].peers : p \notin torrents["h1"].peers
    /\ \E q \in torrents["h1"].peers : q.updated = now - config.max_peer_timeout

\* C18: after a maintenance run with remove_peerless_torrents enabled no
\* torrent entry with an empty peer table remains in the store, whatever its
\* downloaded counter.
C18_NoPeerlessTorrentAfterSweep ==
    [][(CleanupStep /\ config.remove_peerless_torrents) =>
          \A h \in DOMAIN torrents' : torrents'[h].peers # {}]_vars

\* a sweep with the policy enabled has removed h1, which had lost its peers
\* and had a completed download counted and persisted
C18_Witness ==
    /\ response.kind = "cleanup"
    /\ response.time = now
    /\ config.remove_peerless_torrents
    /\ config.persistent_torrent_completed_stat
    /\ "h1" \in DOMAIN response.before
    /\ response.before["h1"].peers # {}
    /\ response.before["h1"].downloaded > 0
    /\ "h1" \notin DOMAIN torrents

\* C19: with remove_peerless_torrents disabled a maintenance run removes the
\* inactive peers and no torrent entry, not even one whose peer table is or
\* becomes empty; the downloaded counters stay.
C19_DisabledPolicyKeepsTorrents ==
    [][(CleanupStep /\ ~config.remove_peerless_torrents) =>
          /\ DOMAIN torrents' = DOMAIN torrents
          /\ \A h \in DOMAIN torrents :
                /\ torrents'[h].downloaded = torrents[h].downloaded
                /\ torrents'[h].peers =
                      {p \in torrents[h].peers :
                          ~(p.updated < Max(now - config.max_peer_timeout, 0))}]_vars

\* a sweep with the policy disabled has emptied the peer table of h1 and kept
\* the entry
C19_Witness ==
    /\ response.kind = "cleanup"
    /\ response.time = now
    /\ ~config.remove_peerless_torrents
    /\ "h1" \in DOMAIN response.before
    /\ response.before["h1"].peers # {}
    /\ "h1" \in DOMAIN torrents
    /\ torrents["h1"].peers = {}

\* the step answers an announce or a scrape
HandlerStep ==
    /\ response'.kind \in {"announce", "scrape"}
    /\ n_requests' = n_requests + 1

\* C20: no announce, whatever its event, Stopped included, and no scrape
\* removes a peer or a torrent entry from the swarm store: every entry stays,
\* and every PeerId of its table stays in the table.
C20_HandlersNeverEvict ==
    [][HandlerStep =>
          /\ DOMAIN torrents \subseteq DOMAIN torrents'
          /\ \A h \in DOMAIN torrents : \A p \in torrents[h].peers :
                \E q \in torrents'[h].peers : q.peer_id = p.peer_id]_vars

\* p1 has announced Stopped on h1 after p2 had joined, and both are in the table
C20_Witness ==
    /\ response.kind = "announce"
    /\ response.peer.event = "Stopped"
    /\ "h1" \in DOMAIN torrents
    /\ response.peer \in torrents["h1"].peers
    /\ Downloaded(torrents, "h1") > 0
    /\ Cardinality(torrents["h1"].peers) = 2

----------------------------------------------------------------------------
(* The address stored for an announcing peer *)

MaxIpSteps == 3

\* an address that only ever appears inside an announce payload
ClaimedIp == "ip7"

\* the UDP announce path from the datagram's source address to the core
\* handler: the request carries an ip_address of its own, peer_builder takes
\* the source address
IpAnnounce ==
    /\ n_requests < MaxIpSteps
    /\ \E info_hash \in {"h1"}, peer_id \in {"p1", "p2"},
          remote_client_ip \in {Loopback, "ip1", "ip2"},
          ip_address \in {ClaimedIp, "ip1", NoIp},
          event \in {"Started", "Stopped"} :
          LET announce_request == [peer_id |-> peer_id, port |-> 1, event |-> event,
                                   left |-> 1, ip_address |-> ip_address]
          IN  \E out \in announce(info_hash, from_request(announce_request, remote_client_ip),
                                  remote_client_ip, AsManyAsPossible) :
                 /\ torrents' = out.torrents
                 /\ db_torrents' = out.db_torrents
                 /\ response' = [kind |-> "ip_announce",
                                 info_hash |-> info_hash,
                                 announce_request |-> announce_request,
                                 remote_client_ip |-> remote_client_ip,
                                 announce_data |-> out.response]
    /\ n_requests' = n_requests + 1
    /\ UNCHANGED <<config, whitelist, db_whitelist, keys, now, ban_service, udp, minted, loader, inflight>>

NextIp == IpAnnounce

SpecIp == Init /\ [][NextIp]_vars

----------------------------------------------------------------------------
(* UDP announces of a swarm with both address families *)

MaxFamilySteps == 3

\* sources of both families, and the peer id each announces with
FamilySources == {<<"ip1", 1>>, <<"ip2", 1>>} \cup Sources6
FamilyPeerIdOf == [s \in FamilySources |-> CASE s = <<"ip1", 1>> -> "p1"
                                             [] s = <<"ip2", 1>> -> "p3"
                                             [] s = <<"ip6", 1>> -> "p4"
                                             [] s = <<"ip6", 2>> -> "p5"]

\* an announce datagram from a source holding a connection id issued to it now
FamilyAnnounce ==
    /\ n_requests < MaxFamilySteps
    /\ \E from \in FamilySources, event \in {"Started", "Completed"} :
          LET cookie_time_values == CookieTimeValues_new(CookieLifetime)
              udp_request ==
                  [kind |-> "Announce", from |-> from,
                   connection_id |-> make(gen_remote_fingerprint(from),
                                          cookie_time_values.issue_time),
                   transaction_id |-> 1, info_hash |-> "h1",
                   peer_id |-> FamilyPeerIdOf[from], port |-> from[2],
                   event |-> event, left |-> 1, peers_wanted |-> -1]
          IN  \E out \in handle_packet(udp_request, cookie_time_values) :
                 /\ torrents' = out.core.torrents
                 /\ db_torrents' = out.core.db_torrents
                 /\ response' = out.core.response
                 /\ ban_service' = out.ban_service
                 /\ udp' = [request |-> udp_request, response |-> out.response, time |-> now]
    /\ n_requests' = n_requests + 1
    /\ UNCHANGED <<config, whitelist, db_whitelist, keys, now, minted, loader, inflight>>

NextFamilies == FamilyAnnounce

SpecFamilies == InitUdp /\ [][NextFamilies]_vars

----------------------------------------------------------------------------
(* The number of peers a client asks for *)

MaxWanted == 76
MaxNegativeWanted == 3

\* the values a request can carry: small ones around zero and the limit, and
\* values at the ends of the i32 range
WantedValues(width) ==
    IF width = "i32"
    THEN (-MaxNegativeWanted .. MaxWanted) \cup {-2147483647, 2147483647}
    ELSE (0 .. MaxWanted) \cup {2147483647}

\* a request is waiting with its peers_wanted value: an i32 read from a UDP
\* datagram, or a u32 parsed from the numwant of an HTTP query
InitWanted ==
    /\ torrents = [h \in {} |-> EmptyEntry]
    /\ db_torrents = [h \in {} |-> 0]
    /\ config = [external_ip |-> NoIp,
                 persistent_torrent_completed_stat |-> FALSE,
                 listed |-> FALSE,
                 private |-> FALSE,
                 private_mode |-> None,
                 on_reverse_proxy |-> FALSE,
                 max_peer_timeout |-> MaxPeerTimeout,
                 remove_peerless_torrents |-> FALSE]
    /\ whitelist = {}
    /\ db_whitelist = {}
    /\ keys = {}
    /\ now = 0
    /\ n_requests = 0
    /\ response = NoResponse
    /\ ban_service = [ip \in Ips |-> 0]
    /\ minted = {}
    /\ loader = NoLoad
    /\ inflight = NoCalls
    /\ udp \in {[request |-> [kind |-> "peers_wanted", width |-> width, value |-> value],
                 response |-> NoResponse, time |-> 0] :
                   width \in {"i32", "u32"}, value \in (-MaxNegativeWanted .. MaxWanted)
                                                       \cup {-2147483647, 2147483647}}
    /\ udp.request.value \in WantedValues(udp.request.width)

\* the value is converted to a PeersWanted and the limit is taken from it
ResolvePeersWanted ==
    /\ udp.request.kind = "peers_wanted"
    /\ response = NoResponse
    /\ LET peers_wanted == IF udp.request.width = "i32"
                           THEN PeersWanted_from(udp.request.value)
                           ELSE PeersWanted_only(udp.request.value)
       IN  response' = [kind |-> "peers_wanted",
                        peers_wanted |-> peers_wanted,
                        limit |-> limit(peers_wanted)]
    /\ UNCHANGED <<torrents, db_torrents, config, now, n_requests, whitelist,
                   db_whitelist, keys, ban_service, udp, minted, loader, inflight>>

NextWanted == ResolvePeersWanted

SpecWanted == InitWanted /\ [][NextWanted]_vars

----------------------------------------------------------------------------
(* UDP scrapes of a list of infohashes *)

MaxScrapeLen == 2
MaxScrapeSteps == 3

\* ScrapeData::empty: files is a HashMap<InfoHash, SwarmMetadata>
ScrapeData_empty == [h \in {} |-> zeroed]

\* ScrapeData::add_file: HashMap::insert
ScrapeData_add_file(files, info_hash, swarm_metadata) ==
    [h \in DOMAIN files \cup {info_hash} |->
        IF h = info_hash THEN swarm_metadata ELSE files[h]]

RECURSIVE scrape_from(_, _, _)
\* the loop of ScrapeHandler::scrape from the i-th infohash of the Vec on
scrape_from(scrape_data, info_hashes, i) ==
    IF i > Len(info_hashes)
    THEN scrape_data
    ELSE LET info_hash == info_hashes[i]
             swarm_metadata == IF authorize(info_hash)
                               THEN get_swarm_metadata(torrents, info_hash)
                               ELSE zeroed
         IN  scrape_from(ScrapeData_add_file(scrape_data, info_hash, swarm_metadata),
                         info_hashes, i + 1)

\* ScrapeHandler::scrape over a Vec<InfoHash>
scrape_vec(info_hashes) == scrape_from(ScrapeData_empty, info_hashes, 1)

\* the orders in which a HashMap can be iterated: each key once, in any order
HashMap_iter(files) ==
    {order \in [1 .. Cardinality(DOMAIN files) -> DOMAIN files] :
        \A i, j \in DOMAIN order : order[i] = order[j] => i = j}

\* the TorrentScrapeStatistics built from a SwarmMetadata
TorrentScrapeStatistics(swarm_metadata) ==
    [seeders   |-> swarm_metadata.complete,
     completed |-> swarm_metadata.downloaded,
     leechers  |-> swarm_metadata.incomplete]

\* handle_scrape with the request's infohashes as the Vec they are
handle_scrape_vec(remote_addr, request, cookie_valid_range) ==
    LET checked == check(request.connection_id, gen_remote_fingerprint(remote_addr),
                         cookie_valid_range)
        scrape_data == scrape_vec(request.info_hashes)
    IN  IF checked # "Ok"
        THEN {Err(checked, request.transaction_id)}
        ELSE {Ok([kind |-> "Scrape",
                  transaction_id |-> request.transaction_id,
                  torrent_stats |-> [i \in DOMAIN order |->
                                        TorrentScrapeStatistics(scrape_data[order[i]])]]) :
              order \in HashMap_iter(scrape_data)}

\* the lists of infohashes a scrape request can carry
ScrapeLists ==
    UNION {[1 .. n -> InfoHashes] : n \in 0 .. MaxScrapeLen}

\* an announce builds up the swarms that are scraped
ScrapeOrderAnnounce ==
    /\ n_requests < MaxScrapeSteps
    /\ \E info_hash \in InfoHashes, a \in {<<"Started", 1>>, <<"Completed", 0>>} :
          LET announce_request == [peer_id |-> "p1", port |-> 1,
                                   event |-> a[1], left |-> a[2]]
          IN  \E out \in announce(info_hash, from_request(announce_request, "ip1"),
                                  "ip1", AsManyAsPossible) :
                 /\ torrents' = out.torrents
                 /\ db_torrents' = out.db_torrents
                 /\ response' = out.response
    /\ udp' = NoUdp
    /\ n_requests' = n_requests + 1
    /\ UNCHANGED <<config, whitelist, db_whitelist, keys, now, ban_service, minted, loader, inflight>>

\* a scrape datagram from a source holding a connection id issued to it now
UdpScrape ==
    /\ n_requests < MaxScrapeSteps
    /\ \E from \in Sources, info_hashes \in ScrapeLists :
          LET cookie_time_values == CookieTimeValues_new(CookieLifetime)
              request == [kind |-> "Scrape", from |-> from,
                          connection_id |-> make(gen_remote_fingerprint(from),
                                                 cookie_time_values.issue_time),
                          transaction_id |-> 1, info_hashes |-> info_hashes]
          IN  \E result \in handle_scrape_vec(from, request, cookie_time_values.valid_range) :
                 /\ response' = [kind |-> "udp_scrape", result |-> result]
                 /\ udp' = [request |-> request, response |-> NoResponse, time |-> now]
    /\ n_requests' = n_requests + 1
    /\ UNCHANGED <<torrents, db_torrents, config, whitelist, db_whitelist, keys, now,
                   ban_service, minted, loader, inflight>>

NextScrapeOrder == ScrapeOrderAnnounce \/ UdpScrape

SpecScrapeOrder == InitUdp /\ [][NextScrapeOrder]_vars

----------------------------------------------------------------------------
(* The whitelist table of the database driver, row by row *)

MaxGatewaySteps == 4

GatewayHashes == {"h1", "h2", "h3"}

\* the rows of the table holding this infohash
RowsOf(rows, info_hash) == {i \in DOMAIN rows : rows[i] = info_hash}

\* mutant: INSERT INTO whitelist on a table whose info_hash column is not UNIQUE
Sqlite_add_info_hash_to_whitelist_without_unique(rows, info_hash) ==
    [result |-> "Ok", rows |-> Append(rows, info_hash)]

\* Sqlite::add_info_hash_to_whitelist: INSERT INTO whitelist, whose info_hash
\* column is UNIQUE; the statement fails on a stored infohash
Sqlite_add_info_hash_to_whitelist(rows, info_hash) ==
    IF RowsOf(rows, info_hash) # {}
    THEN [result |-> "Err", rows |-> rows]
    ELSE [result |-> "Ok", rows |-> Append(rows, info_hash)]

\* Sqlite::remove_info_hash_from_whitelist: DELETE, an error unless one row went
Sqlite_remove_info_hash_from_whitelist(rows, info_hash) ==
    LET kept == SelectSeq(rows, LAMBDA r : r # info_hash)
    IN  [result |-> IF Len(rows) - Len(kept) = 1 THEN "Ok" ELSE "Err", rows |-> kept]

\* Sqlite::load_whitelist
Sqlite_load_whitelist(rows) == rows

\* a driver on an empty whitelist table
InitGateway ==
    /\ torrents = [h \in {} |-> EmptyEntry]
    /\ db_torrents = [h \in {} |-> 0]
    /\ config = [external_ip |-> NoIp,
                 persistent_torrent_completed_stat |-> FALSE,
                 listed |-> TRUE,
                 private |-> FALSE,
                 private_mode |-> None,
                 on_reverse_proxy |-> FALSE,
                 max_peer_timeout |-> MaxPeerTimeout,
                 remove_peerless_torrents |-> FALSE]
    /\ whitelist = {}
    /\ db_whitelist = <<>>
    /\ keys = {}
    /\ now = 0
    /\ n_requests = 0
    /\ response = NoResponse
    /\ ban_service = [ip \in Ips |-> 0]
    /\ udp = NoUdp
    /\ minted = {}
    /\ loader = NoLoad
    /\ inflight = NoCalls

\* the driver is asked to add an infohash
GatewayAdd ==
    /\ n_requests < MaxGatewaySteps
    /\ \E info_hash \in GatewayHashes :
          LET out == Sqlite_add_info_hash_to_whitelist(db_whitelist, info_hash)
          IN  /\ db_whitelist' = out.rows
              /\ response' = [kind |-> "gateway_add", info_hash |-> info_hash,
                              result |-> out.result, before |-> db_whitelist,
                              loaded |-> Sqlite_load_whitelist(out.rows)]
    /\ n_requests' = n_requests + 1
    /\ UNCHANGED <<torrents, db_torrents, config, now, whitelist, keys, ban_service,
                   udp, minted, loader, inflight>>

\* the driver is asked to remove an infohash
GatewayRemove ==
    /\ n_requests < MaxGatewaySteps
    /\ \E info_hash \in GatewayHashes :
          LET out == Sqlite_remove_info_hash_from_whitelist(db_whitelist, info_hash)
          IN  /\ db_whitelist' = out.rows
              /\ response' = [kind |-> "gateway_remove", info_hash |-> info_hash,
                              result |-> out.result, before |-> db_whitelist,
                              loaded |-> Sqlite_load_whitelist(out.rows)]
    /\ n_requests' = n_requests + 1
    /\ UNCHANGED <<torrents, db_torrents, config, now, whitelist, keys, ban_service,
                   udp, minted, loader, inflight>>

NextGateway == GatewayAdd \/ GatewayRemove

SpecGateway == InitGateway /\ [][NextGateway]_vars

----------------------------------------------------------------------------
(* A load of the whitelist from the database, step by step, next to authorize *)

MaxReloads == 2

\* the orders in which the rows of a table can come back
Orders(set) ==
    {order \in [1 .. Cardinality(set) -> set] :
        \A i, j \in DOMAIN order : order[i] = order[j] => i = j}

\* a listed tracker whose in-memory whitelist holds what the table holds
InitReload ==
    /\ torrents = [h \in {} |-> EmptyEntry]
    /\ db_torrents = [h \in {} |-> 0]
    /\ config = [external_ip |-> NoIp,
                 persistent_torrent_completed_stat |-> FALSE,
                 listed |-> TRUE,
                 private |-> FALSE,
                 private_mode |-> None,
                 on_reverse_proxy |-> FALSE,
                 max_peer_timeout |-> MaxPeerTimeout,
                 remove_peerless_torrents |-> FALSE]
    /\ db_whitelist \in SUBSET InfoHashes
    /\ whitelist = db_whitelist
    /\ keys = {}
    /\ now = 0
    /\ n_requests = 0
    /\ response = NoResponse
    /\ ban_service = [ip \in Ips |-> 0]
    /\ udp = NoUdp
    /\ minted = {}
    /\ loader = NoLoad
    /\ inflight = NoCalls

\* load_whitelist_from_database, first statement: DatabaseWhitelist::load_from_database;
\* an error ends the load before anything is touched
LoadFromDatabase ==
    /\ loader.pc = "idle"
    /\ n_requests < MaxReloads
    /\ \E database_fails \in BOOLEAN :
          IF database_fails
          THEN /\ loader' = loader
               /\ response' = [kind |-> "load_whitelist", result |-> "DatabaseError"]
          ELSE /\ \E whitelisted_torrents_from_database \in Orders(db_whitelist) :
                     loader' = [pc |-> "clear",
                                pending |-> whitelisted_torrents_from_database,
                                old |-> whitelist]
               /\ response' = [kind |-> "load_whitelist", result |-> "running"]
    /\ n_requests' = n_requests + 1
    /\ UNCHANGED <<torrents, db_torrents, config, now, whitelist, db_whitelist, keys,
                   ban_service, udp, minted, inflight>>

\* second statement: InMemoryWhitelist::clear, under the write lock
Clear ==
    /\ loader.pc = "clear"
    /\ whitelist' = {}
    /\ loader' = [loader EXCEPT !.pc = "add"]
    /\ response' = [kind |-> "load_whitelist", result |-> "running"]
    /\ UNCHANGED <<torrents, db_torrents, config, now, n_requests, db_whitelist, keys,
                   ban_service, udp, minted, inflight>>

\* one turn of the loop: InMemoryWhitelist::add, under the write lock
AddNext ==
    /\ loader.pc = "add"
    /\ loader.pending # <<>>
    /\ whitelist' = InMemoryWhitelist_add(whitelist, Head(loader.pending))
    /\ loader' = [loader EXCEPT !.pending = Tail(@)]
    /\ response' = [kind |-> "load_whitelist", result |-> "running"]
    /\ UNCHANGED <<torrents, db_torrents, config, now, n_requests, db_whitelist, keys,
                   ban_service, udp, minted, inflight>>

\* the loop is over: Ok(())
LoadDone ==
    /\ loader.pc = "add"
    /\ loader.pending = <<>>
    /\ loader' = NoLoad
    /\ response' = [kind |-> "load_whitelist", result |-> "Ok"]
    /\ UNCHANGED <<torrents, db_torrents, config, now, n_requests, whitelist, db_whitelist,
                   keys, ban_service, udp, minted, inflight>>

\* WhitelistAuthorization::authorize called by a handler, under the read lock
ConcurrentAuthorize ==
    /\ \E info_hash \in InfoHashes :
          response' = [kind |-> "authorize",
                       info_hash |-> info_hash,
                       result |-> authorize(info_hash),
                       observed |-> whitelist,
                       old |-> IF loader.pc = "idle" THEN whitelist ELSE loader.old,
                       new |-> db_whitelist,
                       loading |-> loader.pc # "idle"]
    /\ UNCHANGED <<torrents, db_torrents, config, now, n_requests, whitelist, db_whitelist,
                   keys, ban_service, udp, minted, loader, inflight>>

NextReload == LoadFromDatabase \/ Clear \/ AddNext \/ LoadDone \/ ConcurrentAuthorize

SpecReload == InitReload /\ [][NextReload]_vars

----------------------------------------------------------------------------
(* The generation of keys with a lifetime *)

\* the lifetimes an administrator can ask for: none, or a number of seconds up
\* to the largest the type holds
Lifetimes == {None} \cup {Some(seconds_valid) : seconds_valid \in 0 .. MaxTimestamp}

\* a key is generated with the lifetime asked for and put into the repository;
\* a panic inside key::generate_key ends the call before anything is stored
GenerateKey ==
    /\ n_requests < MaxKeySteps
    /\ \E key \in {"k1"}, lifetime \in Lifetimes :
          LET auth_key == generate_key(key, lifetime)
              panicked == auth_key = Panicked
          IN  /\ keys' = IF panicked THEN keys
                         ELSE InMemoryKeyRepository_insert(keys, auth_key)
              /\ response' = [kind |-> "generate_key", lifetime |-> lifetime,
                              time |-> now, before |-> keys,
                              outcome |-> IF panicked THEN "panic" ELSE "Ok"]
    /\ n_requests' = n_requests + 1
    /\ UNCHANGED <<torrents, db_torrents, config, whitelist, db_whitelist, now,
                   ban_service, udp, minted, loader, inflight>>

NextKeyGeneration == GenerateKey \/ TickKeys

SpecKeyGeneration == InitKeys /\ [][NextKeyGeneration]_vars

----------------------------------------------------------------------------
(* Announces on concurrent tasks, one repository call at a time *)

MaxConcurrentAnnounces == 2

\* the tasks serving requests at the same time
Tasks == {1, 2}

\* the client served by each task
ClientOf == [t \in Tasks |-> IF t = 1 THEN <<"p1", "ip1", 1>> ELSE <<"p2", "ip2", 1>>]

\* the calls in progress with the call of task t set, and without it
Put(calls, t, call) ==
    [u \in DOMAIN calls \cup {t} |-> IF u = t THEN call ELSE calls[u]]
Drop(calls, t) == [u \in DOMAIN calls \ {t} |-> calls[u]]

\* the peer record a client's Started announce leaves in the store
StartedPeer(client) ==
    [peer_id |-> client[1], peer_addr |-> <<client[2], client[3]>>, updated |-> 0,
     left |-> 1, event |-> "Started"]

\* the store after both clients announced Started on h1, one after the other
BothStarted ==
    upsert_peer(upsert_peer([h \in {} |-> EmptyEntry], "h1", StartedPeer(ClientOf[1])),
                "h1", StartedPeer(ClientOf[2]))

\* persistence is on and the database works; the store is empty, or both
\* clients are leechers of h1 already and the table holds h1's counter
InitConcurrent ==
    /\ config = [external_ip |-> NoIp,
                 persistent_torrent_completed_stat |-> TRUE,
                 listed |-> FALSE,
                 private |-> FALSE,
                 private_mode |-> None,
                 on_reverse_proxy |-> FALSE,
                 max_peer_timeout |-> MaxPeerTimeout,
                 remove_peerless_torrents |-> FALSE]
    /\ torrents \in {[h \in {} |-> EmptyEntry], BothStarted}
    /\ db_torrents = IF torrents = BothStarted
                     THEN persist_stats([h \in {} |-> 0], "h1",
                                        get_swarm_metadata(BothStarted, "h1"))
                     ELSE [h \in {} |-> 0]
    /\ whitelist = {}
    /\ db_whitelist = {}
    /\ keys = {}
    /\ now = 0
    /\ n_requests = 0
    /\ response = NoResponse
    /\ ban_service = [ip \in Ips |-> 0]
    /\ udp = NoUdp
    /\ minted = {}
    /\ loader = NoLoad
    /\ inflight = NoCalls

\* announce up to the first repository call of upsert_peer_and_get_stats:
\* change_ip, then get_swarm_metadata for swarm_metadata_before
AnnounceBefore(t) ==
    /\ t \notin DOMAIN inflight
    /\ n_requests < MaxConcurrentAnnounces
    /\ \E info_hash \in InfoHashes, event \in {"Started", "Completed"} :
          LET client == ClientOf[t]
              announce_request == [peer_id |-> client[1], port |-> client[3],
                                   event |-> event,
                                   left |-> IF event = "Completed" THEN 0 ELSE 1]
              peer == change_ip(from_request(announce_request, client[2]),
                                assign_ip_address_to_peer(client[2], config.external_ip))
          IN  /\ inflight' = Put(inflight, t,
                                 [pc |-> "upsert", info_hash |-> info_hash, peer |-> peer,
                                  swarm_metadata_before |->
                                      get_swarm_metadata(torrents, info_hash)])
              /\ response' = [kind |-> "announcing", task |-> t, info_hash |-> info_hash]
    /\ n_requests' = n_requests + 1
    /\ UNCHANGED <<torrents, db_torrents, config, whitelist, db_whitelist, keys, now,
                   ban_service, udp, minted, loader>>

\* the second repository call: upsert_peer
AnnounceUpsert(t) ==
    /\ t \in DOMAIN inflight
    /\ inflight[t].pc = "upsert"
    /\ torrents' = upsert_peer(torrents, inflight[t].info_hash, inflight[t].peer)
    /\ inflight' = Put(inflight, t,
                       [pc |-> "after", info_hash |-> inflight[t].info_hash,
                        peer |-> inflight[t].peer,
                        swarm_metadata_before |-> inflight[t].swarm_metadata_before,
                        after_own_upsert |->
                            get_swarm_metadata(torrents', inflight[t].info_hash)])
    /\ response' = [kind |-> "announcing", task |-> t, info_hash |-> inflight[t].info_hash]
    /\ UNCHANGED <<db_torrents, config, whitelist, db_whitelist, keys, now, n_requests,
                   ban_service, udp, minted, loader>>

\* the third repository call: get_swarm_metadata for swarm_metadata_after, and
\* the comparison that decides whether persist_stats is called
AnnounceAfter(t) ==
    /\ t \in DOMAIN inflight
    /\ inflight[t].pc = "after"
    /\ LET call == inflight[t]
           swarm_metadata_after == get_swarm_metadata(torrents, call.info_hash)
           saves == IF call.swarm_metadata_before # swarm_metadata_after
                    THEN persist_stats_saves(call.info_hash, swarm_metadata_after)
                    ELSE <<>>
       IN  inflight' = Put(inflight, t,
                           [pc |-> IF saves # <<>> THEN "save" ELSE "peers",
                            info_hash |-> call.info_hash, peer |-> call.peer,
                            after_own_upsert |-> call.after_own_upsert,
                            swarm_metadata_after |-> swarm_metadata_after])
    /\ response' = [kind |-> "announcing", task |-> t, info_hash |-> inflight[t].info_hash]
    /\ UNCHANGED <<torrents, db_torrents, config, whitelist, db_whitelist, keys, now,
                   n_requests, ban_service, udp, minted, loader>>

\* persist_stats: the save of swarm_metadata_after.downloaded
AnnounceSave(t) ==
    /\ t \in DOMAIN inflight
    /\ inflight[t].pc = "save"
    /\ db_torrents' = save_persistent_torrent(db_torrents, inflight[t].info_hash,
                                              inflight[t].swarm_metadata_after.downloaded)
    /\ inflight' = Put(inflight, t, [inflight[t] EXCEPT !.pc = "peers"])
    /\ response' = [kind |-> "announcing", task |-> t, info_hash |-> inflight[t].info_hash]
    /\ UNCHANGED <<torrents, config, whitelist, db_whitelist, keys, now, n_requests,
                   ban_service, udp, minted, loader>>

\* the last repository call, get_peers_for, and the AnnounceData returned
AnnouncePeers(t) ==
    /\ t \in DOMAIN inflight
    /\ inflight[t].pc = "peers"
    /\ \E peers \in get_peers_for(torrents, inflight[t].info_hash, inflight[t].peer,
                                  limit(AsManyAsPossible)) :
          response' = [kind |-> "announced", task |-> t,
                       info_hash |-> inflight[t].info_hash,
                       peer |-> inflight[t].peer,
                       stats |-> inflight[t].swarm_metadata_after,
                       after_own_upsert |-> inflight[t].after_own_upsert,
                       peers |-> peers]
    /\ inflight' = Drop(inflight, t)
    /\ UNCHANGED <<torrents, db_torrents, config, whitelist, db_whitelist, keys, now,
                   n_requests, ban_service, udp, minted, loader>>

NextConcurrent ==
    \E t \in Tasks :
        \/ AnnounceBefore(t)
        \/ AnnounceUpsert(t)
        \/ AnnounceAfter(t)
        \/ AnnounceSave(t)
        \/ AnnouncePeers(t)

SpecConcurrent == InitConcurrent /\ [][NextConcurrent]_vars

----------------------------------------------------------------------------
(* The services of a private tracker: the jobs the application starts *)

\* jobs of app::start: the jobs started for a configuration with one UDP block
\* and one HTTP block; the torrent cleanup job needs a positive interval
jobs_serving_udp_in_private_mode(cfg) ==
    {"udp_tracker", "http_tracker"}
        \cup (IF cfg.inactive_peer_cleanup_interval > 0 THEN {"torrent_cleanup"} ELSE {})

jobs_without_torrent_cleanup(cfg) ==
    (IF cfg.private THEN {} ELSE {"udp_tracker"}) \cup {"http_tracker"}

jobs(cfg) ==
    (IF cfg.private THEN {} ELSE {"udp_tracker"})
        \cup {"http_tracker"}
        \cup (IF cfg.inactive_peer_cleanup_interval > 0 THEN {"torrent_cleanup"} ELSE {})

\* the application is started in either mode, with no key registered yet
InitPrivate ==
    /\ torrents = [h \in {} |-> EmptyEntry]
    /\ db_torrents = [h \in {} |-> 0]
    /\ config \in [external_ip : {NoIp},
                   persistent_torrent_completed_stat : {FALSE},
                   listed : {FALSE},
                   private : BOOLEAN,
                   private_mode : {None, Some([check_keys_expiration |-> TRUE]),
                                   Some([check_keys_expiration |-> FALSE])},
                   on_reverse_proxy : {TRUE},
                   max_peer_timeout : {MaxPeerTimeout},
                   remove_peerless_torrents : {FALSE},
                   inactive_peer_cleanup_interval : {1}]
    /\ whitelist = {}
    /\ db_whitelist = {}
    /\ keys = {}
    /\ now = 1
    /\ n_requests = 0
    /\ response = NoResponse
    /\ ban_service = [ip \in Ips |-> 0]
    /\ udp = NoUdp
    /\ minted = {}
    /\ loader = NoLoad
    /\ inflight = NoCalls

\* an announce served by the HTTP tracker job: p2 on h1, with no key, the
\* registered key or an unknown key
ServedHttpAnnounce ==
    /\ n_requests < MaxKeySteps
    /\ "http_tracker" \in jobs(config)
    /\ \E maybe_key \in {None, Some("k1"), Some("k2")}, event \in {"Started", "Completed"} :
          \E out \in http_handle_announce(
                         [info_hash |-> "h1", peer_id |-> "p2", port |-> 2,
                          event |-> event, left |-> 1, numwant |-> None],
                         [right_most_x_forwarded_for |-> Some("ip2"),
                          connection_info_ip |-> Some("ip1")],
                         maybe_key) :
             /\ torrents' = out.torrents
             /\ db_torrents' = out.db_torrents
             /\ response' = [kind |-> "served", job |-> "http_tracker",
                             maybe_key |-> maybe_key, ok |-> out.result.ok,
                             time |-> now]
    /\ n_requests' = n_requests + 1
    /\ UNCHANGED <<config, whitelist, db_whitelist, keys, now, ban_service, udp, minted, loader, inflight>>

\* an announce served by the UDP tracker job: p1 on h1, from a source holding a
\* connection id issued to it now; a datagram carries no key
ServedUdpAnnounce ==
    /\ n_requests < MaxKeySteps
    /\ "udp_tracker" \in jobs(config)
    /\ \E event \in {"Started", "Completed"} :
          LET cookie_time_values == CookieTimeValues_new(CookieLifetime)
              from == <<"ip1", 1>>
              udp_request ==
                  [kind |-> "Announce", from |-> from,
                   connection_id |-> make(gen_remote_fingerprint(from),
                                          cookie_time_values.issue_time),
                   transaction_id |-> 1, info_hash |-> "h1",
                   peer_id |-> "p1", port |-> 1,
                   event |-> event, left |-> 1, peers_wanted |-> -1]
          IN  \E out \in handle_packet(udp_request, cookie_time_values) :
                 /\ torrents' = out.core.torrents
                 /\ db_torrents' = out.core.db_torrents
                 /\ response' = [kind |-> "served", job |-> "udp_tracker",
                                 maybe_key |-> None,
                                 ok |-> out.response.kind # "Error",
                                 time |-> now]
                 /\ ban_service' = out.ban_service
                 /\ udp' = [request |-> udp_request, response |-> out.response, time |-> now]
    /\ n_requests' = n_requests + 1
    /\ UNCHANGED <<config, whitelist, db_whitelist, keys, now, minted, loader, inflight>>

NextPrivate ==
    \/ AddKey
    \/ TickKeys
    \/ ServedHttpAnnounce
    \/ ServedUdpAnnounce

SpecPrivate == InitPrivate /\ [][NextPrivate]_vars

----------------------------------------------------------------------------
(* Whitelist manager calls on concurrent tasks, one repository call at a time *)

MaxWhitelistCalls == 3

\* the infohashes in the table
Listed(rows) == {rows[i] : i \in DOMAIN rows}

\* Database::is_info_hash_whitelisted: SELECT on the whitelist table
is_info_hash_whitelisted(rows, info_hash) == RowsOf(rows, info_hash) # {}

\* a listed tracker whose whitelist was loaded from the table at startup
InitWhitelistRace ==
    /\ torrents = [h \in {} |-> EmptyEntry]
    /\ db_torrents = [h \in {} |-> 0]
    /\ config = [external_ip |-> NoIp,
                 persistent_torrent_completed_stat |-> FALSE,
                 listed |-> TRUE,
                 private |-> FALSE,
                 private_mode |-> None,
                 on_reverse_proxy |-> FALSE,
                 max_peer_timeout |-> MaxPeerTimeout,
                 remove_peerless_torrents |-> FALSE]
    /\ db_whitelist \in {<<>>, <<"h1">>}
    /\ whitelist = Listed(Sqlite_load_whitelist(db_whitelist))
    /\ keys = {}
    /\ now = 0
    /\ n_requests = 0
    /\ response = [kind |-> "none", removes |-> FALSE]
    /\ ban_service = [ip \in Ips |-> 0]
    /\ udp = NoUdp
    /\ minted = {}
    /\ loader = NoLoad
    /\ inflight = NoCalls

\* the answer of a manager call that returns on task t
Returned(t, call, result, database_failed) ==
    [kind |-> "whitelist_returned", task |-> t, op |-> call.op,
     info_hash |-> call.info_hash, result |-> result,
     database_failed |-> database_failed, removes |-> response.removes]

\* a manager call in progress on task t has taken a step
Stepped(t, call, removes) ==
    [kind |-> "whitelist_step", task |-> t, op |-> call.op,
     info_hash |-> call.info_hash, removes |-> removes]

\* add_torrent_to_whitelist or remove_torrent_from_whitelist up to the first
\* database call of DatabaseWhitelist::add or remove: is_info_hash_whitelisted
WhitelistCheck(t) ==
    /\ t \notin DOMAIN inflight
    /\ n_requests < MaxWhitelistCalls
    /\ \E op \in {"add", "remove"}, database_fails \in BOOLEAN :
          LET call == [op |-> op, info_hash |-> "h1", pc |-> "check"]
              removes == response.removes \/ op = "remove"
              is_whitelisted == is_info_hash_whitelisted(db_whitelist, call.info_hash)
          IN  IF database_fails
              THEN /\ inflight' = inflight
                   /\ response' = [Returned(t, call, "Err", TRUE) EXCEPT !.removes = removes]
              ELSE /\ inflight' = Put(inflight, t,
                                      [call EXCEPT !.pc =
                                          IF (op = "add") = is_whitelisted
                                          THEN "memory" ELSE "write"])
                   /\ response' = Stepped(t, call, removes)
    /\ n_requests' = n_requests + 1
    /\ UNCHANGED <<torrents, db_torrents, config, whitelist, db_whitelist, keys, now,
                   ban_service, udp, minted, loader>>

\* the second database call of DatabaseWhitelist::add or remove: the INSERT or
\* the DELETE; an error returns from the manager call
WhitelistWrite(t) ==
    /\ t \in DOMAIN inflight
    /\ inflight[t].pc = "write"
    /\ \E database_fails \in BOOLEAN :
          LET call == inflight[t]
              out == IF call.op = "add"
                     THEN Sqlite_add_info_hash_to_whitelist(db_whitelist, call.info_hash)
                     ELSE Sqlite_remove_info_hash_from_whitelist(db_whitelist, call.info_hash)
          IN  IF database_fails
              THEN /\ db_whitelist' = db_whitelist
                   /\ inflight' = Drop(inflight, t)
                   /\ response' = Returned(t, call, "Err", TRUE)
              ELSE /\ db_whitelist' = out.rows
                   /\ IF out.result = "Ok"
                      THEN /\ inflight' = Put(inflight, t, [call EXCEPT !.pc = "memory"])
                           /\ response' = Stepped(t, call, response.removes)
                      ELSE /\ inflight' = Drop(inflight, t)
                           /\ response' = Returned(t, call, "Err", FALSE)
    /\ UNCHANGED <<torrents, db_torrents, config, whitelist, keys, now, n_requests,
                   ban_service, udp, minted, loader>>

\* the last call of the manager: the in-memory whitelist, then Ok(())
WhitelistMemory(t) ==
    /\ t \in DOMAIN inflight
    /\ inflight[t].pc = "memory"
    /\ whitelist' = IF inflight[t].op = "add"
                    THEN InMemoryWhitelist_add(whitelist, inflight[t].info_hash)
                    ELSE InMemoryWhitelist_remove(whitelist, inflight[t].info_hash)
    /\ inflight' = Drop(inflight, t)
    /\ response' = Returned(t, inflight[t], "Ok", FALSE)
    /\ UNCHANGED <<torrents, db_torrents, config, db_whitelist, keys, now, n_requests,
                   ban_service, udp, minted, loader>>

NextWhitelistRace ==
    \E t \in Tasks :
        \/ WhitelistCheck(t)
        \/ WhitelistWrite(t)
        \/ WhitelistMemory(t)

SpecWhitelistRace == InitWhitelistRace /\ [][NextWhitelistRace]_vars

----------------------------------------------------------------------------
(* The torrent cleanup job of a running application *)

MaxEvictionClock == 3
MaxEvictionAnnounces == 2

\* the application is started with a cleanup interval of zero or of one second
InitEviction ==
    /\ torrents = [h \in {} |-> EmptyEntry]
    /\ db_torrents = [h \in {} |-> 0]
    /\ config \in [external_ip : {NoIp},
                   persistent_torrent_completed_stat : {FALSE},
                   listed : {FALSE},
                   private : {FALSE},
                   private_mode : {None},
                   on_reverse_proxy : {FALSE},
                   max_peer_timeout : {MaxPeerTimeout},
                   remove_peerless_torrents : BOOLEAN,
                   inactive_peer_cleanup_interval : {0, 1}]
    /\ whitelist = {}
    /\ db_whitelist = {}
    /\ keys = {}
    /\ now = 0
    /\ n_requests = 0
    /\ response = NoResponse
    /\ ban_service = [ip \in Ips |-> 0]
    /\ udp = NoUdp
    /\ minted = {}
    /\ loader = NoLoad
    /\ inflight = NoCalls

\* announces of p1 and p2 on h1, early enough for the clock to pass their timeout
EvictionAnnounce ==
    /\ n_requests < MaxEvictionAnnounces
    /\ now + config.max_peer_timeout < MaxEvictionClock
    /\ AnnounceOf({"h1"}, {<<"p1", "ip1", 1>>, <<"p2", "ip2", 1>>},
                  {<<"Started", 1>>, <<"Completed", 0>>, <<"Stopped", 1>>}, {-1})

\* a second passes
EvictionClock ==
    /\ now < MaxEvictionClock
    /\ now' = now + 1
    /\ UNCHANGED <<torrents, db_torrents, config, whitelist, db_whitelist, keys,
                   n_requests, response, ban_service, udp, minted, loader, inflight>>

\* the timer of the torrent cleanup job fires, when the job was started
TorrentCleanupJob ==
    /\ "torrent_cleanup" \in jobs(config)
    /\ torrents' = cleanup_torrents
    /\ response' = [kind |-> "cleanup", time |-> now, before |-> torrents]
    /\ UNCHANGED <<db_torrents, config, whitelist, db_whitelist, keys, now, n_requests,
                   ban_service, udp, minted, loader, inflight>>

NextEviction ==
    \/ EvictionAnnounce
    \/ EvictionClock
    \/ TorrentCleanupJob

\* time passes, and the timer of a started job keeps firing
SpecEviction ==
    /\ InitEviction
    /\ [][NextEviction]_vars
    /\ WF_vars(EvictionClock)
    /\ WF_vars(TorrentCleanupJob)

----------------------------------------------------------------------------
(* Properties of the persistence of download counters *)

\* the step is an announce of the persistence model
PersistAnnounceStep ==
    /\ response'.kind = "announce"
    /\ n_requests' = n_requests + 1

\* the step loads the torrents from the database, successfully
LoadStep ==
    /\ response'.kind = "load"
    /\ response'.result = "Ok"
    /\ response'.before = torrents
    /\ n_requests' = n_requests + 1

\* C21: peer lists are never persisted. The persisted table holds pairs
\* (infohash, downloaded) and nothing else, and an announce writes at most the
\* pair of the announced torrent with its downloaded counter; after the
\* torrents are loaded from the database every entry the load created has the
\* persisted downloaded value and an empty peer table, and the load adds no
\* peer to an entry that was there.
C21_OnlyCountersPersisted ==
    [][/\ db_torrents' \in [DOMAIN db_torrents' -> Nat]
       /\ DOMAIN db_torrents' \subseteq InfoHashes
       /\ PersistAnnounceStep =>
             \A h \in DOMAIN db_torrents' :
                 \/ h \in DOMAIN db_torrents /\ db_torrents'[h] = db_torrents[h]
                 \/ h = response'.info_hash /\ db_torrents'[h] = torrents'[h].downloaded
       /\ LoadStep =>
             /\ db_torrents' = db_torrents
             /\ \A h \in DOMAIN db_torrents :
                   /\ h \in DOMAIN torrents'
                   /\ torrents'[h].downloaded = db_torrents[h]
                   /\ torrents'[h].peers = Peers(torrents, h)]_vars

\* after a restart the load has created the entry of h1 with the persisted
\* counter 1 and without peers
C21_Witness ==
    /\ response.kind = "load"
    /\ response.result = "Ok"
    /\ "h1" \notin DOMAIN response.before
    /\ "h1" \in DOMAIN db_torrents
    /\ db_torrents["h1"] > 0
    /\ "h1" \in DOMAIN torrents
    /\ torrents["h1"].downloaded = db_torrents["h1"]
    /\ torrents["h1"].peers = {}

\* the step is a start of the application
StartStep ==
    /\ response'.kind = "start"
    /\ n_requests' = n_requests + 1

\* C22: with persistent_torrent_completed_stat enabled the download counters
\* survive a restart: once the application has started, every infohash for
\* which the database holds a downloaded value has an entry in the store
\* whose downloaded counter is that value.
C22_CountersSurviveRestart ==
    [][(StartStep /\ config.persistent_torrent_completed_stat) =>
          \A h \in DOMAIN db_torrents' :
              /\ h \in DOMAIN torrents'
              /\ torrents'[h].downloaded = db_torrents'[h]]_vars

\* C23: during an announce save_persistent_torrent(infohash, after.downloaded)
\* is called exactly when the swarm metadata taken before and after the upsert
\* differ and persistent_torrent_completed_stat is on; it is not called when
\* the flag is off or the two snapshots are equal.
C23_SavedIffChangedAndEnabled ==
    [][PersistAnnounceStep =>
          LET info_hash == response'.info_hash
              before == get_swarm_metadata(torrents, info_hash)
              after  == get_swarm_metadata(torrents', info_hash)
          IN  IF before # after /\ config.persistent_torrent_completed_stat
              THEN response'.saves = <<[info_hash |-> info_hash,
                                        completed |-> after.downloaded]>>
              ELSE response'.saves = <<>>]_vars

\* an announce that raised the counter of h1 to 1 has asked the database to
\* save (h1, 1)
C23_Witness ==
    /\ response.kind = "announce"
    /\ config.persistent_torrent_completed_stat
    /\ response.before # response.announce_data.stats
    /\ response.saves = <<[info_hash |-> "h1", completed |-> 1]>>

\* the step answers an announce of the persistence model, well or not
AnnounceAttemptStep ==
    /\ response'.kind \in {"announce", "error"}
    /\ n_requests' = n_requests + 1

\* C24: a database failure while the download counter is saved during an
\* announce does not fail the announce: the client receives the announce
\* result it would receive from a working database, the upsert and the counter
\* stay in memory, and only the persisted table misses the write.
C24_SaveFailureDoesNotFailAnnounce ==
    [][(AnnounceAttemptStep /\ response'.database_fails /\ response'.saves # <<>>) =>
          /\ response'.kind = "announce"
          /\ \E out \in announce(response'.info_hash, response'.peer,
                                 response'.peer.peer_addr[1], AsManyAsPossible) :
                /\ torrents' = out.torrents
                /\ response'.announce_data = out.response
          /\ response'.peer \in torrents'[response'.info_hash].peers
          /\ db_torrents' = db_torrents]_vars

\* the Completed announce of a known peer has been answered and counted in
\* memory while the database refused the save
C24_Witness ==
    /\ response.kind = "announce"
    /\ response.database_fails
    /\ response.saves = <<[info_hash |-> "h1", completed |-> 1]>>
    /\ response.announce_data.stats.downloaded = 1
    /\ torrents["h1"].downloaded = 1
    /\ response.peer \in torrents["h1"].peers
    /\ db_torrents["h1"] = 0

----------------------------------------------------------------------------
(* Properties of the address stored for a peer *)

\* the address of the peer with this id in the swarm of the torrent
StoredIps(ts, info_hash, peer_id) ==
    IF info_hash \in DOMAIN ts
    THEN {q.peer_addr[1] : q \in {r \in ts[info_hash].peers : r.peer_id = peer_id}}
    ELSE {}

\* C25: the address stored and published for an announcing peer is the
\* configured external address when the resolved client address is a loopback
\* address and an external address is configured, and the resolved address in
\* every other case; the address inside the announce payload is never used.
C25_StoredIpIsResolvedOrExternal ==
    response.kind = "ip_announce" =>
        LET remote   == response.remote_client_ip
            expected == IF remote = Loopback /\ config.external_ip # NoIp
                        THEN config.external_ip ELSE remote
            stored   == StoredIps(torrents, response.info_hash,
                                  response.announce_request.peer_id)
        IN  /\ response.announce_request.event # "Stopped" => stored = {expected}
            /\ stored \subseteq {expected}
            /\ \A h \in DOMAIN torrents : \A q \in torrents[h].peers :
                  q.peer_addr[1] \in {Loopback, "ip1", "ip2", ExternalIp}
            /\ \A q \in response.announce_data.peers :
                  /\ q \in torrents[response.info_hash].peers
                  /\ q.peer_addr[1] # ClaimedIp

\* a peer announcing from the loopback address with another address in its
\* payload is stored under the external address, and a second peer is then told
\* that address
C25_Witness ==
    /\ response.kind = "ip_announce"
    /\ config.external_ip = ExternalIp
    /\ response.announce_request.peer_id = "p2"
    /\ response.remote_client_ip = "ip2"
    /\ StoredIps(torrents, "h1", "p2") = {"ip2"}
    /\ StoredIps(torrents, "h1", "p1") = {ExternalIp}
    /\ \E q \in response.announce_data.peers :
          q.peer_id = "p1" /\ q.peer_addr[1] = ExternalIp

----------------------------------------------------------------------------
(* Properties of the UDP announce response *)

\* C26: a UDP announce response to a client with an IPv4 source address holds
\* only IPv4 peers, and a response to a client with an IPv6 source address only
\* IPv6 peers, whatever families the swarm holds.
C26_ResponsePeersOfSourceFamily ==
    udp.response.kind = "Announce" =>
        \A peer_addr \in udp.response.peers :
            is_ipv4(peer_addr[1]) = is_ipv4(udp.request.from[1])

\* an IPv6 source is given the other IPv6 peer and not the IPv4 peer that the
\* core handler returned with it
C26_Witness ==
    /\ udp.response.kind = "Announce"
    /\ udp.request.from = <<"ip6", 2>>
    /\ udp.response.peers = {<<"ip6", 1>>}
    /\ \E q \in response.peers : is_ipv4(q.peer_addr[1])
    /\ \E q \in torrents["h1"].peers : q.peer_addr = <<"ip1", 1>>

----------------------------------------------------------------------------
(* Properties of the number of peers asked for *)

\* C27: a peers_wanted of 0, of any negative value or of any value above 74
\* resolves to a limit of 74; a value n from 1 to 74 resolves to a limit of n.
C27_LimitOfPeersWanted ==
    response.kind = "peers_wanted" =>
        LET value == udp.request.value
        IN  response.limit = IF value <= 0 \/ value > 74 THEN 74 ELSE value

\* a request asking for 75 peers has been given a limit of 74
C27_Witness ==
    /\ response.kind = "peers_wanted"
    /\ udp.request.value = 75
    /\ udp.request.width = "i32"
    /\ response.peers_wanted = Only(74)
    /\ response.limit = 74

----------------------------------------------------------------------------
(* Properties of the UDP scrape response *)

\* C28: a scrape over a list of infohashes yields exactly one entry per input
\* infohash, in input order: the i-th statistics record of a UDP scrape
\* response belongs to the i-th requested infohash.
C28_ScrapeRecordsInRequestOrder ==
    (response.kind = "udp_scrape" /\ response.result.ok) =>
        LET info_hashes   == udp.request.info_hashes
            torrent_stats == response.result.response.torrent_stats
        IN  /\ Len(torrent_stats) = Len(info_hashes)
            /\ \A i \in DOMAIN info_hashes :
                  torrent_stats[i] =
                      TorrentScrapeStatistics(IF authorize(info_hashes[i])
                                              THEN get_swarm_metadata(torrents, info_hashes[i])
                                              ELSE zeroed)

----------------------------------------------------------------------------
(* Properties of the whitelist table *)

\* C29 as stated: add_info_hash_to_whitelist on an infohash that is already
\* stored succeeds and leaves exactly one entry for it.
C29_DuplicateAddSucceeds ==
    (response.kind = "gateway_add" /\ RowsOf(response.before, response.info_hash) # {}) =>
        /\ response.result = "Ok"
        /\ Cardinality(RowsOf(response.loaded, response.info_hash)) = 1

\* C29, amended: add_info_hash_to_whitelist leaves exactly one entry for the
\* infohash; it succeeds when the infohash was not stored and returns an error,
\* leaving the table as it was, when it was.
C29_DuplicateAddFailsKeepingOneEntry ==
    response.kind = "gateway_add" =>
        /\ Cardinality(RowsOf(response.loaded, response.info_hash)) = 1
        /\ response.result = "Ok" <=> RowsOf(response.before, response.info_hash) = {}
        /\ response.result = "Err" => response.loaded = response.before

\* the same infohash has been added a second time: an error, one entry
C29_Witness ==
    /\ response.kind = "gateway_add"
    /\ response.info_hash = "h1"
    /\ RowsOf(response.before, "h1") # {}
    /\ response.result = "Err"
    /\ Cardinality(RowsOf(db_whitelist, "h1")) = 1

----------------------------------------------------------------------------
(* Properties of the load of the whitelist *)

\* C30: a load of the whitelist from the database replaces the in-memory set
\* atomically: an authorize call running next to it decides on the complete
\* old set or on the complete new set, never on an empty or partly loaded one.
C30_ReloadIsAtomic ==
    response.kind = "authorize" =>
        /\ response.observed \in {response.old, response.new}
        /\ response.result = (response.info_hash \in response.old)
              \/ response.result = (response.info_hash \in response.new)

----------------------------------------------------------------------------
(* Properties of the generation of keys *)

\* C31: key generation refuses a lifetime whose addition to the current time
\* overflows the timestamp type by signalling DurationOverflow: no key is
\* created or stored, and the call returns an error instead of aborting.
C31_OverflowingLifetimeRefused ==
    (/\ response.kind = "generate_key"
     /\ response.lifetime # None
     /\ response.lifetime[1] > MaxTimestamp - response.time) =>
        /\ response.outcome = "DurationOverflow"
        /\ keys = response.before

----------------------------------------------------------------------------
(* Properties of datagrams that do not parse (SpecUdp) *)

\* C32: a datagram that fails to parse is answered with an Error response
\* carrying the client's own transaction id when the header is recoverable;
\* when no transaction id is recoverable no response is sent at all.
C32_UnparsableAnsweredOrDropped ==
    udp.request.kind = "Malformed" =>
        IF udp.request.sendable
        THEN /\ udp.response.kind = "Error"
             /\ udp.response.transaction_id = udp.request.transaction_id
        ELSE udp.response = NoResponse

----------------------------------------------------------------------------
(* Properties of concurrent announces *)

\* C33: the swarm metadata an announce returns is the state immediately after
\* that announce's own upsert: its two snapshots and its upsert run as a unit,
\* with no other announce's upsert on the infohash between them.
C33_StatsAreThoseAfterOwnUpsert ==
    response.kind = "announced" => response.stats = response.after_own_upsert

\* C36: with persistence on and a working database, whenever no announce is
\* in progress the persisted downloaded value of every infohash equals its
\* in-memory counter, whatever the interleaving of the announces was.
C36_PersistedCounterEqualsMemoryAtRest ==
    inflight = NoCalls =>
        \A info_hash \in DOMAIN torrents :
            /\ info_hash \in DOMAIN db_torrents
            /\ db_torrents[info_hash] = torrents[info_hash].downloaded

\* the entry of an infohash, if there is one
EntryOf(ts, info_hash) ==
    IF info_hash \in DOMAIN ts THEN Some(ts[info_hash]) ELSE None

\* the persisted counter of an infohash, if there is one
PersistedOf(db, info_hash) ==
    IF info_hash \in DOMAIN db THEN Some(db[info_hash]) ELSE None

\* C40: an announce for infohash H changes only H's entry and H's persisted
\* counter: at every step of it, the peer table and the counters of every
\* other infohash stay as they are, whatever other announces are in progress.
C40_AnnounceTouchesOnlyItsInfoHash ==
    [][\A info_hash \in InfoHashes \ {response'.info_hash} :
          /\ EntryOf(torrents', info_hash) = EntryOf(torrents, info_hash)
          /\ PersistedOf(db_torrents', info_hash) = PersistedOf(db_torrents, info_hash)]_vars

\* an announce on h2 has been served while an announce on h1 is between its
\* upsert and its save: both torrents hold a peer
C40_Witness ==
    /\ response.kind = "announced"
    /\ response.info_hash = "h2"
    /\ 1 \in DOMAIN inflight
    /\ inflight[1].info_hash = "h1"
    /\ inflight[1].pc = "save"
    /\ torrents["h1"].peers # {}
    /\ torrents["h2"].peers # {}
    /\ db_torrents["h2"] = 0

----------------------------------------------------------------------------
(* Properties of the private mode *)

\* C34: while the tracker is private, every announce step that changes the
\* swarm store is an HTTP announce that carried a key authenticate accepts; an
\* HTTP announce with no key, with an unregistered key, or with a key that
\* authenticate finds expired is rejected and leaves the store and the
\* persisted counters as they were; and no announce is served by the UDP job.
C34_PrivateAnnouncesAreKeyed ==
    [][(config.private /\ response'.kind = "served" /\ n_requests' # n_requests) =>
          /\ response'.job # "udp_tracker"
          /\ (torrents' # torrents \/ response'.ok) =>
                /\ response'.job = "http_tracker"
                /\ response'.maybe_key # None
                /\ authenticate(response'.maybe_key[1]) = "Ok"
          /\ (response'.job = "http_tracker" /\
                (\/ response'.maybe_key = None
                 \/ ~Registered(response'.maybe_key[1])
                 \/ InThePast(response'.maybe_key[1]) /\ check_keys_expiration)) =>
                /\ ~response'.ok
                /\ torrents' = torrents
                /\ db_torrents' = db_torrents]_vars

\* a private tracker has stored the peer of an HTTP announce that carried the
\* registered key
C34_Witness ==
    /\ config.private
    /\ response.kind = "served"
    /\ response.job = "http_tracker"
    /\ response.maybe_key = Some("k1")
    /\ response.ok
    /\ "h1" \in DOMAIN torrents

----------------------------------------------------------------------------
(* Properties of concurrent whitelist manager calls *)

\* C35: whenever no whitelist manager call is in progress, the in-memory
\* whitelist holds exactly the infohashes of the persisted whitelist, whatever
\* the interleaving of the adds and removes before and whichever of their
\* database steps failed.
C35_MemoryEqualsPersistedAtRest ==
    inflight = NoCalls => whitelist = Listed(db_whitelist)

\* C37: with only add_torrent_to_whitelist calls issued, every call whose
\* database answered returns Ok, the table holds exactly one row for the
\* infohash and the in-memory whitelist holds the infohash.
C37_ConcurrentAddsAllSucceed ==
    (/\ response.kind = "whitelist_returned"
     /\ response.op = "add"
     /\ ~response.removes
     /\ ~response.database_failed) =>
        /\ response.result = "Ok"
        /\ Cardinality(RowsOf(db_whitelist, response.info_hash)) = 1
        /\ response.info_hash \in whitelist

----------------------------------------------------------------------------
(* Properties of the download counter across maintenance *)

\* C38: the downloaded counter that a scrape or an announce reports for an
\* infohash never decreases, whatever the step: an announce, a scrape, a tick
\* of the clock or a run of the maintenance job, the removal of a peerless
\* torrent included.
C38_ReportedDownloadedNeverDecreases ==
    [][\A h \in InfoHashes :
          get_swarm_metadata(torrents', h).downloaded
              >= get_swarm_metadata(torrents, h).downloaded]_vars

----------------------------------------------------------------------------
(* Properties of the eviction of silent peers *)

\* the peer table of h1 holds a record of this peer last updated at this time
Holds(peer_id, updated) ==
    /\ "h1" \in DOMAIN torrents
    /\ \E p \in torrents["h1"].peers : p.peer_id = peer_id /\ p.updated = updated

\* C39 as stated: in every configuration, a record of a peer that is not
\* announced again is eventually removed from the peer table.
C39_SilentPeerEventuallyEvicted ==
    \A peer_id \in {"p1", "p2"}, updated \in 0..MaxEvictionClock :
        Holds(peer_id, updated) ~> ~Holds(peer_id, updated)

\* C39 amended: when inactive_peer_cleanup_interval is positive, a record of a
\* peer that is not announced again is eventually removed from the peer table.
C39_SilentPeerEventuallyEvictedIfJobStarted ==
    \A peer_id \in {"p1", "p2"}, updated \in 0..MaxEvictionClock :
        (config.inactive_peer_cleanup_interval > 0 /\ Holds(peer_id, updated))
            ~> ~Holds(peer_id, updated)

\* the cleanup job has removed the record of a peer more than max_peer_timeout
\* after its announce
C39_Witness ==
    /\ config.inactive_peer_cleanup_interval > 0
    /\ response.kind = "cleanup"
    /\ "h1" \in DOMAIN response.before
    /\ \E p \in response.before["h1"].peers :
          /\ response.time - p.updated > config.max_peer_timeout
          /\ ~Holds(p.peer_id, p.updated)

====
